---- MODULE Spec2Model ----
(***************************************************************************)
(* Model of the Streamlit dashboards of this repository:                   *)
(*   - the GitLab issue dashboard (gitlabapp.py): label parsing, sidebar   *)
(*     filters, Overview, Kanban and Hygiene tabs;                         *)
(*   - the Fund Explorer (userhistorytab.py): commentary and activity log  *)
(*     kept in two JSON files.                                             *)
(* Text on which the code does character work (labels, comments, user      *)
(* names) is a sequence of one-character strings.                          *)
(***************************************************************************)
EXTENDS Integers, Sequences, FiniteSets, TLC

VARIABLES
    \* ---- label parsing (gitlabapp.py, parse_labels) ----
    labels,          \* the label list handed to parse_labels
    parsed,          \* what parse_labels returned for it
    normalized,      \* normalize_label of each label, in list order
    edit_form,       \* the Edit form's fields from which a label list was built
    \* ---- GitLab issue dashboard (gitlabapp.py) ----
    server,          \* the project's issues as the GitLab API holds them
    connected,       \* Base URL, Project ID and Access Token are filled in
    filters,         \* the sidebar multiselects' values, per field
    group_by,        \* the "Swimlane by" radio's value
    session_state,   \* st.session_state: filter_<field> and selected_issue
    selected_sprint, \* the Commentary tab's selectbox
    selected_issue,  \* the Edit tab's selectbox: an iid, 0 for ""
    commentary_file, \* commentary.json: sprint -> the five sections
    df,              \* fetch_issues' result in the last script run
    filtered,        \* filtered_df of the last script run
    temp_df,         \* the Overview tab's issues table
    swimlane_options,\* the options the radio offered
    board,           \* the Kanban board: the lanes in order, each with its cards
    missing_count,   \* the Hygiene tab's counts, per field
    missing,         \* the Hygiene tab's listing: the field clicked and the issues
    rendered,        \* the buttons the last script run rendered
    update_calls,    \* the update_issue calls the last script run made
    stage,           \* how far the last script run got
    event,           \* the widget interaction that triggered the last script run
    runs,            \* script runs so far
    \* ---- Fund Explorer (userhistorytab.py) ----
    commentary_json, \* fund_commentary.json: fund -> list of comments
    log_json,        \* user_activity.json: user -> list of log entries
    now,             \* the clock datetime.now() reads
    sess,            \* per browser session: the script run's position and locals
    \* ---- Excel loading (utils/file_loader.py, userhistorytab.py) ----
    folder,          \* the Excel folder: its files as glob lists them
    sheet_mapping,   \* SHEET_MAPPING
    fund_col_overrides, \* FILE_FUND_COL_MAPPING
    dataframes,      \* userhistorytab.py: what load_excel_files_from_folder returned
    by_fund,         \* utils/file_loader.py: what load_excel_files_from_folder returned
    selected_sources,\* the source multiselect
    combined_columns,\* the columns of combined_df
    load_stage,      \* how far the script got with loading
    detect_columns,  \* the columns handed to detect_fund_column
    detected,        \* what detect_fund_column returned for them
    \* ---- CSV export (gitlab.py) ----
    api_pages,       \* the responses of the issues API, per page
    page,            \* the page the loop requests next
    all_issues,      \* the issues fetched so far
    requested,       \* the pages requested so far, in order
    sorted_labels,   \* the label columns
    output_file,     \* issues_with_labels.csv: its rows, each a list of fields
    export_pc        \* the script's position: fetch, labels, csv, done

labelVars == <<labels, parsed, normalized, edit_form>>
fundVars == <<commentary_json, log_json, now, sess>>
gitlabVars == <<server, connected, filters, group_by, session_state, selected_sprint,
                selected_issue, commentary_file, df, filtered, temp_df, swimlane_options,
                board, missing_count, missing, rendered, update_calls, stage, event, runs>>
loaderVars == <<folder, sheet_mapping, fund_col_overrides, dataframes, by_fund,
                selected_sources, combined_columns, load_stage, detect_columns, detected>>
exportVars == <<api_pages, page, all_issues, requested, sorted_labels, output_file, export_pc>>
vars == <<labelVars, gitlabVars, fundVars, loaderVars, exportVars>>

\* the variables of the other programs
notLabelVars == <<gitlabVars, fundVars, loaderVars, exportVars>>
notGitlabVars == <<labelVars, fundVars, loaderVars, exportVars>>
notFundVars == <<labelVars, gitlabVars, loaderVars, exportVars>>
notLoaderVars == <<labelVars, gitlabVars, fundVars, exportVars>>
notExportVars == <<labelVars, gitlabVars, fundVars, loaderVars>>

(***************************************************************************)
(* Python string operations                                                *)
(***************************************************************************)
Whitespace == {" ", "\t", "\n"}
Digits == {"0", "1", "2", "3", "4", "5", "6", "7", "8", "9"}
Lowers == <<"a","b","c","d","e","f","g","h","i","j","k","l","m",
            "n","o","p","q","r","s","t","u","v","w","x","y","z">>
Uppers == <<"A","B","C","D","E","F","G","H","I","J","K","L","M",
            "N","O","P","Q","R","S","T","U","V","W","X","Y","Z">>

IsLower(c) == \E i \in 1..Len(Lowers) : Lowers[i] = c
IsUpper(c) == \E i \in 1..Len(Uppers) : Uppers[i] = c
IsCased(c) == IsLower(c) \/ IsUpper(c)
ToUpper(c) == IF IsLower(c) THEN Uppers[CHOOSE i \in 1..Len(Lowers) : Lowers[i] = c] ELSE c
ToLower(c) == IF IsUpper(c) THEN Lowers[CHOOSE i \in 1..Len(Uppers) : Uppers[i] = c] ELSE c

RECURSIVE LStrip(_)
LStrip(s) == IF s # <<>> /\ Head(s) \in Whitespace THEN LStrip(Tail(s)) ELSE s

RECURSIVE RStrip(_)
RStrip(s) ==
    IF s # <<>> /\ s[Len(s)] \in Whitespace THEN RStrip(SubSeq(s, 1, Len(s) - 1)) ELSE s

\* str.strip()
Strip(s) == RStrip(LStrip(s))

RECURSIVE TitleFrom(_, _)
TitleFrom(s, prevCased) ==
    IF s = <<>> THEN <<>>
    ELSE LET c == Head(s) IN
         IF IsCased(c)
         THEN <<IF prevCased THEN ToLower(c) ELSE ToUpper(c)>> \o TitleFrom(Tail(s), TRUE)
         ELSE <<c>> \o TitleFrom(Tail(s), FALSE)

\* str.title(): the first letter of every run of letters upper-cased, the rest lower-cased
Title(s) == TitleFrom(s, FALSE)

\* str.startswith(prefix)
StartsWith(s, prefix) == Len(s) >= Len(prefix) /\ SubSeq(s, 1, Len(prefix)) = prefix

\* the positions at which "::" occurs in s
SepPositions(s) == {i \in 1..(Len(s) - 1) : s[i] = ":" /\ s[i + 1] = ":"}

\* "::" in s
HasSep(s) == SepPositions(s) # {}

RECURSIVE FindSepFrom(_, _)
FindSepFrom(s, i) ==
    IF i + 1 > Len(s) THEN 0
    ELSE IF s[i] = ":" /\ s[i + 1] = ":" THEN i ELSE FindSepFrom(s, i + 1)

\* s.split("::", 1) of a string holding "::": the text before and after its first "::"
SplitKey(s) == SubSeq(s, 1, FindSepFrom(s, 1) - 1)
SplitValue(s) == SubSeq(s, FindSepFrom(s, 1) + 2, Len(s))

(***************************************************************************)
(* normalize_label and parse_labels                                        *)
(***************************************************************************)
sTeam == <<"T","e","a","m">>
sStatus == <<"S","t","a","t","u","s">>
sSprint == <<"S","p","r","i","n","t">>
sProject == <<"P","r","o","j","e","c","t">>
sWorkstream == <<"W","o","r","k","s","t","r","e","a","m">>
sMilestone == <<"M","i","l","e","s","t","o","n","e">>
sSep == <<":", ":">>

FieldNames == {"Team", "Status", "Sprint", "Project", "Workstream", "Milestone"}
FieldText(f) ==
    CASE f = "Team" -> sTeam
      [] f = "Status" -> sStatus
      [] f = "Sprint" -> sSprint
      [] f = "Project" -> sProject
      [] f = "Workstream" -> sWorkstream
      [] f = "Milestone" -> sMilestone

RECURSIVE DropDigits(_)
DropDigits(s) == IF s # <<>> /\ Head(s) \in Digits THEN DropDigits(Tail(s)) ELSE s

\* the mutant of RegexPrefixRemoved: every hyphen removed (\-* for \-?)
RECURSIVE DropHyphens(_)
DropHyphens(s) == IF s # <<>> /\ Head(s) = "-" THEN DropHyphens(Tail(s)) ELSE s

RegexPrefixRemovedAllHyphens(s) ==
    IF s = <<>> \/ Head(s) \notin Digits THEN s
    ELSE LStrip(DropHyphens(DropDigits(s)))

\* re.sub(r"^\d+\-?\s*", "", s): one match, at the start only
RegexPrefixRemoved(s) ==
    IF s = <<>> \/ Head(s) \notin Digits THEN s
    ELSE LET afterDigits == DropDigits(s)
             afterHyphen == IF afterDigits # <<>> /\ Head(afterDigits) = "-"
                            THEN Tail(afterDigits) ELSE afterDigits
         IN  LStrip(afterHyphen)

normalize_label(raw_label) == RegexPrefixRemoved(Strip(raw_label))

EmptyParsed ==
    [Team |-> <<>>, Status |-> <<>>, Sprint |-> <<>>, Project |-> <<>>,
     Workstream |-> <<>>, Milestone |-> <<>>]

\* the mutant of ParseOne: a field once set is kept (the first label wins)
ParseOneFirstWins(acc, raw_label) ==
    LET label == normalize_label(raw_label) IN
    IF ~HasSep(label) THEN acc
    ELSE LET key == Title(Strip(SplitKey(label)))
             value == Strip(SplitValue(label))
         IN  IF StartsWith(key, sTeam) /\ acc.Team = <<>> THEN [acc EXCEPT !.Team = value]
             ELSE IF StartsWith(key, sStatus) /\ acc.Status = <<>> THEN [acc EXCEPT !.Status = value]
             ELSE IF StartsWith(key, sSprint) /\ acc.Sprint = <<>> THEN [acc EXCEPT !.Sprint = value]
             ELSE IF StartsWith(key, sProject) /\ acc.Project = <<>> THEN [acc EXCEPT !.Project = value]
             ELSE IF StartsWith(key, sWorkstream) /\ acc.Workstream = <<>>
                  THEN [acc EXCEPT !.Workstream = value]
             ELSE IF StartsWith(key, sMilestone) /\ acc.Milestone = <<>>
                  THEN [acc EXCEPT !.Milestone = value]
             ELSE acc

\* the body of parse_labels' loop, for one label
ParseOne(acc, raw_label) ==
    LET label == normalize_label(raw_label) IN
    IF ~HasSep(label) THEN acc
    ELSE LET key == Title(Strip(SplitKey(label)))
             value == Strip(SplitValue(label))
         IN  IF StartsWith(key, sTeam) THEN [acc EXCEPT !.Team = value]
             ELSE IF StartsWith(key, sStatus) THEN [acc EXCEPT !.Status = value]
             ELSE IF StartsWith(key, sSprint) THEN [acc EXCEPT !.Sprint = value]
             ELSE IF StartsWith(key, sProject) THEN [acc EXCEPT !.Project = value]
             ELSE IF StartsWith(key, sWorkstream) THEN [acc EXCEPT !.Workstream = value]
             ELSE IF StartsWith(key, sMilestone) THEN [acc EXCEPT !.Milestone = value]
             ELSE acc

RECURSIVE ParseFrom(_, _)
ParseFrom(ls, acc) ==
    IF ls = <<>> THEN acc ELSE ParseFrom(Tail(ls), ParseOne(acc, Head(ls)))

parse_labels(ls) == ParseFrom(ls, EmptyParsed)

(***************************************************************************)
(* The labels the parsing specification draws from                         *)
(***************************************************************************)
MaxLabels == 2

vA == <<"A">>
vB == <<" ", "B", " ">>
vCD == <<"C", ":", ":", "D">>

\* one label per key spelling, value A
KeyLabels ==
    { k \o sSep \o vA : k \in
        { sTeam, <<"t","e","a","m">>, <<"S","T","A","T","U","S">>, sSprint, sProject,
          sWorkstream, <<"m","i","l","e","s","t","o","n","e">>,
          <<"T","e","a","m","s">>, <<"M","y"," ","T","e","a","m">>,
          <<"T","e","-","a","m">>, <<"O","w","n","e","r">>, <<>> } }

\* separators and values, key Team
ValueLabels ==
    { sTeam \o sep \o v : sep \in { sSep, <<":">>, <<" ", ":", ":", " ">>, <<>> },
                          v \in { <<>>, vB, vCD } }

\* numeric ordering prefixes and what resembles them
PrefixLabels ==
    { p \o l : p \in { <<"0","1","-">>, <<" ","2","-"," ">>, <<"3","-","-">>,
                       <<"4"," ","5","-">>, <<"-">>, <<"6","\t"," ">> },
               l \in { sTeam \o sSep \o vB, sSprint \o sSep \o <<"7">> } }

OddLabels == { <<>>, <<" ">>, <<"1","2">>, <<"8","-"," ">>, sSep, <<":",":",":">> }

LabelInputs == KeyLabels \cup ValueLabels \cup PrefixLabels \cup OddLabels

\* the Edit form with every field empty
NoForm == [title |-> <<>>, description |-> <<>>, team |-> <<>>, status |-> <<>>,
           sprint |-> <<>>, project |-> <<>>, workstream |-> <<>>, milestone |-> <<>>]

InitLabels ==
    /\ labels = <<>>
    /\ parsed = EmptyParsed
    /\ normalized = <<>>
    /\ edit_form = NoForm

\* parse_labels is called on a label list one label longer
ParseLabels(l) ==
    /\ Len(labels) < MaxLabels
    /\ labels' = Append(labels, l)
    /\ parsed' = parse_labels(labels')
    /\ normalized' = [i \in 1..Len(labels') |-> normalize_label(labels'[i])]
    /\ UNCHANGED edit_form
    /\ UNCHANGED notLabelVars

NextLabels == \E l \in LabelInputs : ParseLabels(l)

(***************************************************************************)
(* GitLab issue dashboard: one script run per widget interaction            *)
(***************************************************************************)
MaxRuns == 3

sNone == <<"N","o","n","e">>
sT == <<"T">>
sDone == <<"D","o","n","e">>

FilterFields == {"sprint", "team", "project", "milestone", "status"}
OverviewFields == {"status", "team", "sprint", "project"}
HygieneFields == {"team", "status", "sprint", "project", "title"}

\* the options of st.radio("Swimlane by", ...); the mutant offers Sprint as well
GroupByOptionsWithSprint == <<"Status", "Team", "Sprint">>

GroupByOptions == <<"Status", "Team">>

\* group_by.lower()
GroupField(g) ==
    CASE g = "Status" -> "status"
      [] g = "Team" -> "team"
      [] g = "Sprint" -> "sprint"

SeqRange(s) == {s[i] : i \in 1..Len(s)}

\* safe_get_json and fetch_issues: one row per issue, the fields parsed from its labels
fetch_issues(srv, apiOk) ==
    IF ~apiOk THEN <<>>
    ELSE [i \in 1..Len(srv) |->
            LET p == parse_labels(srv[i].labels) IN
            [iid |-> srv[i].iid,
             title |-> srv[i].title,
             description |-> srv[i].description,
             team |-> p.Team,
             status |-> p.Status,
             sprint |-> p.Sprint,
             project |-> p.Project,
             workstream |-> p.Workstream,
             milestone |-> IF p.Milestone # <<>> THEN p.Milestone ELSE srv[i].milestone,
             labels |-> srv[i].labels]]

\* df[f].unique(), as a set
ColumnValues(rows, f) == {rows[i][f] : i \in 1..Len(rows)}

\* rows[rows[f].isin(sel)]
ColumnIsIn(rows, f, sel) == SelectSeq(rows, LAMBDA r : r[f] \in sel)

\* rows[rows[f] == v]
ColumnEquals(rows, f, v) == SelectSeq(rows, LAMBDA r : r[f] = v)

\* one sidebar filter: applied only when something is selected
ApplyFilter(rows, f, sel) == IF sel = {} THEN rows ELSE ColumnIsIn(rows, f, sel)

\* the mutant of filtered_df: the status filter is not applied
filtered_df_without_status(rows, flt) ==
    ApplyFilter(ApplyFilter(ApplyFilter(ApplyFilter(rows,
        "sprint", flt.sprint), "team", flt.team), "project", flt.project),
        "milestone", flt.milestone)

filtered_df(rows, flt) ==
    ApplyFilter(ApplyFilter(ApplyFilter(ApplyFilter(ApplyFilter(rows,
        "sprint", flt.sprint), "team", flt.team), "project", flt.project),
        "milestone", flt.milestone), "status", flt.status)

\* .replace("", "None")
ReplaceNone(v) == IF v = <<>> THEN sNone ELSE v

ReplaceNoneIn(rows, f) == [i \in 1..Len(rows) |-> [rows[i] EXCEPT ![f] = ReplaceNone(rows[i][f])]]

Iids(rows) == [i \in 1..Len(rows) |-> rows[i].iid]

RECURSIVE UniqueFrom(_, _)
UniqueFrom(s, seen) ==
    IF s = <<>> THEN <<>>
    ELSE IF Head(s) \in seen THEN UniqueFrom(Tail(s), seen)
    ELSE <<Head(s)>> \o UniqueFrom(Tail(s), seen \cup {Head(s)})

\* Series.unique(): the values in order of first appearance
Unique(s) == UniqueFrom(s, {})

(***************************************************************************)
(* Widget interactions. A script run is triggered by one interaction; a     *)
(* button returns True only in the run its own click triggered.            *)
(***************************************************************************)
NoTexts == [Scope |-> <<>>, KeyDates |-> <<>>, Achievements |-> <<>>,
            NextSteps |-> <<>>, Challenges |-> <<>>]
Ev(kind, field, val, sel, iid) ==
    [kind |-> kind, field |-> field, val |-> val, sel |-> sel, iid |-> iid,
     texts |-> NoTexts, form |-> NoForm]

NoEvent == Ev("none", "", <<>>, {}, 0)

\* a button, by its key
Btn(kind, field, val, iid) == [kind |-> kind, field |-> field, val |-> val, iid |-> iid]

\* st.button(...)'s return value in the run triggered by e
ButtonValue(e, b) ==
    e.kind = b.kind /\ e.field = b.field /\ e.val = b.val /\ e.iid = b.iid

EmptyFilters == [f \in FilterFields |-> {}]
EmptySessionState ==
    [filter_status |-> <<>>, filter_team |-> <<>>, filter_sprint |-> <<>>,
     filter_project |-> <<>>, selected_issue |-> 0]
SessionKey(f) ==
    CASE f = "status" -> "filter_status"
      [] f = "team" -> "filter_team"
      [] f = "sprint" -> "filter_sprint"
      [] f = "project" -> "filter_project"

\* the mutant of BuildLabels: a label for every field, also an empty one
BuildLabelsOfAllFields(form) ==
    <<sTeam \o sSep \o form.team, sStatus \o sSep \o form.status,
      sSprint \o sSep \o form.sprint, sProject \o sSep \o form.project,
      sWorkstream \o sSep \o form.workstream, sMilestone \o sSep \o form.milestone>>

\* the mutant of BuildLabels: key and value joined by a single colon
BuildLabelsOneColon(form) ==
    (IF form.team # <<>> THEN <<sTeam \o <<":">> \o form.team>> ELSE <<>>)
    \o (IF form.status # <<>> THEN <<sStatus \o <<":">> \o form.status>> ELSE <<>>)
    \o (IF form.sprint # <<>> THEN <<sSprint \o <<":">> \o form.sprint>> ELSE <<>>)
    \o (IF form.project # <<>> THEN <<sProject \o <<":">> \o form.project>> ELSE <<>>)
    \o (IF form.workstream # <<>> THEN <<sWorkstream \o <<":">> \o form.workstream>> ELSE <<>>)
    \o (IF form.milestone # <<>> THEN <<sMilestone \o <<":">> \o form.milestone>> ELSE <<>>)

\* the labels an edit or a hygiene fix sends: one per non-empty field, in this order
BuildLabels(form) ==
    (IF form.team # <<>> THEN <<sTeam \o sSep \o form.team>> ELSE <<>>)
    \o (IF form.status # <<>> THEN <<sStatus \o sSep \o form.status>> ELSE <<>>)
    \o (IF form.sprint # <<>> THEN <<sSprint \o sSep \o form.sprint>> ELSE <<>>)
    \o (IF form.project # <<>> THEN <<sProject \o sSep \o form.project>> ELSE <<>>)
    \o (IF form.workstream # <<>> THEN <<sWorkstream \o sSep \o form.workstream>> ELSE <<>>)
    \o (IF form.milestone # <<>> THEN <<sMilestone \o sSep \o form.milestone>> ELSE <<>>)

Payload(iid, form, via) ==
    [iid |-> iid, title |-> form.title, description |-> form.description,
     labels |-> BuildLabels(form), via |-> via]

\* the form of an issue's expander or of the Edit tab, as first rendered
FormOf(row) ==
    [title |-> row.title, description |-> row.description, team |-> row.team,
     status |-> row.status, sprint |-> row.sprint, project |-> row.project,
     workstream |-> row.workstream, milestone |-> row.milestone]

\* update_issue: the PUT replaces the issue's title, description and labels when it succeeds
update_issue(srv, call, putOk) ==
    IF ~putOk THEN srv
    ELSE [i \in 1..Len(srv) |->
            IF srv[i].iid = call.iid
            THEN [srv[i] EXCEPT !.title = call.title, !.description = call.description,
                                !.labels = call.labels]
            ELSE srv[i]]

\* commentary_data[selected_sprint] = commentary
DictSet(d, k, v) == [x \in (DOMAIN d) \cup {k} |-> IF x = k THEN v ELSE d[x]]

\* the selectbox options of the Commentary tab: "None" and every sprint of df
SprintOptions(rows) == {sNone} \cup {ReplaceNone(v) : v \in ColumnValues(rows, "sprint")}

\* the selectbox options of the Edit tab: "#<iid> - <title>" of every filtered issue
IssueOptions(rows) == [i \in 1..Len(rows) |-> <<rows[i].iid, rows[i].title>>]

\* the mutant of OverviewTable: the filters of the session state are not applied
OverviewTableOfAll(rows, ss) == rows

\* the Overview table: filtered_df narrowed by every filter_<field> of the session state
OverviewTable(rows, ss) ==
    SelectSeq(rows, LAMBDA r :
        \A f \in OverviewFields :
            ss[SessionKey(f)] # <<>> => ReplaceNone(r[f]) = ss[SessionKey(f)])

\* a script run that st.stop() ends before the sidebar filters: no widget below the
\* connection inputs is rendered, so each starts from its default in the next run
Stopped(e, name, conn) ==
    /\ connected' = conn
    /\ df' = <<>>
    /\ filtered' = <<>>
    /\ temp_df' = <<>>
    /\ filters' = EmptyFilters
    /\ group_by' = GroupByOptions[1]
    /\ swimlane_options' = <<>>
    /\ board' = <<>>
    /\ missing_count' = [f \in HygieneFields |-> 0]
    /\ missing' = [field |-> "", iids |-> <<>>]
    /\ selected_sprint' = sNone
    /\ selected_issue' = 0
    /\ rendered' = {}
    /\ update_calls' = <<>>
    /\ stage' = name
    /\ event' = e
    /\ runs' = runs + 1
    /\ UNCHANGED <<server, session_state, commentary_file>>

\* the sidebar multiselects: one whose options changed is a new widget, and empty
SidebarFilters(e, rows) ==
    [f \in FilterFields |->
        IF ColumnValues(rows, f) # ColumnValues(df, f) THEN {}
        ELSE IF e.kind = "filter" /\ e.field = f THEN e.sel
        ELSE filters[f]]

\* Tab 1, Overview: a button per value of each field; a click stores the value in
\* the session state; the table shows filtered_df narrowed by the stored values
Tab1(e, fdf) ==
    LET buttons == UNION {{Btn("overview", f, ReplaceNone(v), 0) : v \in ColumnValues(fdf, f)} :
                            f \in OverviewFields}
        clicked == {b \in buttons : ButtonValue(e, b)}
        ss == IF clicked = {} THEN session_state
              ELSE LET b == CHOOSE b \in clicked : TRUE
                   IN  [session_state EXCEPT ![SessionKey(b.field)] = b.val]
    IN  [buttons |-> buttons, ss |-> ss, table |-> OverviewTable(fdf, ss)]

\* the mutant of Board: a lane per row, not per distinct value
BoardLanePerRow(kanban_df, gf) ==
    [k \in 1..Len(kanban_df) |->
        [lane |-> kanban_df[k][gf], cards |-> Iids(ColumnEquals(kanban_df, gf, kanban_df[k][gf]))]]

\* the board: kanban_df[group].unique() lanes, each with the rows of that value
Board(kanban_df, gf) ==
    LET swimlanes == Unique([i \in 1..Len(kanban_df) |-> kanban_df[i][gf]]) IN
    [k \in 1..Len(swimlanes) |->
        [lane |-> swimlanes[k], cards |-> Iids(ColumnEquals(kanban_df, gf, swimlanes[k]))]]

\* Tab 2, Kanban: the radio, the board with a button per card, and the detail panel,
\* where kanban_df[kanban_df["iid"]==selected_iid].iloc[0] raises IndexError for a
\* selected issue that is not on the board
Tab2(e, fdf, ss1) ==
    LET gb == IF e.kind = "groupby" /\ e.field \in SeqRange(GroupByOptions) THEN e.field
              ELSE IF stage \in {"crashed", "done"} /\ group_by \in SeqRange(GroupByOptions)
                   THEN group_by
              ELSE GroupByOptions[1]
        kanban_df == ReplaceNoneIn(fdf, GroupField(gb))
        brd == Board(kanban_df, GroupField(gb))
        buttons == {Btn("card", "", <<>>, i) :
                      i \in UNION {SeqRange(brd[k].cards) : k \in 1..Len(brd)}}
        ss == IF \E b \in buttons : ButtonValue(e, b)
              THEN [ss1 EXCEPT !.selected_issue = e.iid] ELSE ss1
    IN  [group_by |-> gb, board |-> brd, buttons |-> buttons, ss |-> ss,
         crash |-> ss.selected_issue # 0 /\ ss.selected_issue \notin SeqRange(Iids(kanban_df))]

\* the mutant of MissingRows: the rows are taken from df, not from filtered_df
MissingRowsOfAll(fdf, f) == ColumnEquals(df', f, <<>>)

\* filtered_df[filtered_df[f]==""]
MissingRows(fdf, f) == ColumnEquals(fdf, f, <<>>)

\* Tab 3, Hygiene: a count button per field; the clicked field's issues are listed,
\* each with a form and an Apply Fix button that calls update_issue
Tab3(e, fdf) ==
    LET counts == [f \in HygieneFields |-> Len(MissingRows(fdf, f))]
        clicked == {f \in HygieneFields : ButtonValue(e, Btn("missing", f, <<>>, 0))}
        listed == IF clicked = {} THEN [field |-> "", iids |-> <<>>]
                  ELSE LET f == CHOOSE f \in clicked : TRUE
                       IN  [field |-> f, iids |-> Iids(MissingRows(fdf, f))]
        fixClicked == SelectSeq(listed.iids,
                                LAMBDA i : ButtonValue(e, Btn("applyfix", "", <<>>, i)))
    IN  [counts |-> counts, listed |-> listed,
         buttons |-> {Btn("missing", f, <<>>, 0) : f \in HygieneFields}
                     \cup {Btn("applyfix", "", <<>>, i) : i \in SeqRange(listed.iids)},
         calls |-> [k \in 1..Len(fixClicked) |-> Payload(fixClicked[k], e.form, "hygiene")]]

\* the mutant of SaveCommentary: only the selected sprint's commentary is written
SaveCommentaryAlone(data, sprint, texts) == DictSet(<<>>, sprint, texts)

\* commentary_data[selected_sprint] = commentary; json.dump(commentary_data, f)
SaveCommentary(data, sprint, texts) == DictSet(data, sprint, texts)

\* Tab 4, Commentary: the sprint selectbox and Save Commentary
Tab4(e, rows) ==
    LET sel == IF e.kind = "selsprint" /\ e.val \in SprintOptions(rows) THEN e.val
               ELSE IF stage = "done" /\ SprintOptions(rows) = SprintOptions(df)
                    THEN selected_sprint
               ELSE sNone
    IN  [selected |-> sel,
         file |-> IF ButtonValue(e, Btn("save", "", <<>>, 0))
                  THEN SaveCommentary(commentary_file, sel, e.texts) ELSE commentary_file]

\* Tab 5, Edit: the issue selectbox and Apply Changes to GitLab
Tab5(e, fdf) ==
    LET sel == IF e.kind = "selissue" /\ e.iid \in SeqRange(Iids(fdf)) \cup {0} THEN e.iid
               ELSE IF stage = "done" /\ IssueOptions(fdf) = IssueOptions(filtered)
                    THEN selected_issue
               ELSE 0
    IN  [selected |-> sel,
         buttons |-> IF sel # 0 THEN {Btn("apply", "", <<>>, 0)} ELSE {},
         calls |-> IF sel # 0 /\ ButtonValue(e, Btn("apply", "", <<>>, 0))
                   THEN <<Payload(sel, e.form, "edit")>> ELSE <<>>]

\* the script from the sidebar filters to the end of the Edit tab, on the fetched rows
Rendered(e, rows, putOk) ==
    \E flt \in {SidebarFilters(e, rows)} :
    \E fdf \in {filtered_df(rows, flt)} :
    \E t1 \in {Tab1(e, fdf)} :
    \E t2 \in {Tab2(e, fdf, t1.ss)} :
        /\ df' = rows
        /\ filters' = flt
        /\ filtered' = fdf
        /\ temp_df' = Iids(t1.table)
        /\ group_by' = t2.group_by
        /\ swimlane_options' = GroupByOptions
        /\ board' = t2.board
        /\ session_state' = t2.ss
        /\ event' = e
        /\ runs' = runs + 1
        /\ IF t2.crash
           THEN /\ stage' = "crashed"
                /\ missing_count' = [f \in HygieneFields |-> 0]
                /\ missing' = [field |-> "", iids |-> <<>>]
                /\ selected_sprint' = sNone
                /\ selected_issue' = 0
                /\ rendered' = t1.buttons \cup t2.buttons
                /\ update_calls' = <<>>
                /\ UNCHANGED <<server, commentary_file>>
           ELSE \E t3 \in {Tab3(e, fdf)} :
                \E t4 \in {Tab4(e, rows)} :
                \E t5 \in {Tab5(e, fdf)} :
                    /\ stage' = "done"
                    /\ missing_count' = t3.counts
                    /\ missing' = t3.listed
                    /\ selected_sprint' = t4.selected
                    /\ selected_issue' = t5.selected
                    /\ rendered' = t1.buttons \cup t2.buttons \cup t3.buttons
                                    \cup {Btn("save", "", <<>>, 0)} \cup t5.buttons
                    /\ update_calls' = t3.calls \o t5.calls
                    /\ commentary_file' = t4.file
                    /\ server' = IF t3.calls \o t5.calls = <<>> THEN server
                                 ELSE update_issue(server, (t3.calls \o t5.calls)[1], putOk)

\* the interaction e is one the page of the last run offers
EventPossible(e) ==
    \/ e.kind = "reload"
    \/ e.kind = "connect" /\ ~connected
    \/ /\ e.kind = "filter"
       /\ stage \in {"crashed", "done"}
       /\ e.field \in FilterFields
       /\ e.sel \subseteq ColumnValues(df, e.field)
       /\ e.sel # filters[e.field]
    \/ /\ e.kind = "groupby"
       /\ stage \in {"crashed", "done"}
       /\ e.field \in SeqRange(swimlane_options)
       /\ e.field # group_by
    \/ /\ e.kind \in {"overview", "card", "missing", "applyfix", "save", "apply"}
       /\ Btn(e.kind, e.field, e.val, e.iid) \in rendered
    \/ /\ e.kind = "selsprint"
       /\ stage = "done"
       /\ e.val \in SprintOptions(df) \ {selected_sprint}
    \/ /\ e.kind = "selissue"
       /\ stage = "done"
       /\ e.iid \in (SeqRange(Iids(filtered)) \cup {0}) \ {selected_issue}

\* one script run: triggered by the interaction e, with the API answering or not
Run(e, apiOk, putOk) ==
    /\ runs < MaxRuns
    /\ EventPossible(e)
    /\ IF ~(connected \/ e.kind = "connect") THEN Stopped(e, "nocreds", FALSE)
       ELSE \E rows \in {fetch_issues(server, apiOk)} :
               IF rows = <<>> THEN Stopped(e, "nodata", TRUE)
               ELSE connected' = TRUE /\ Rendered(e, rows, putOk)
    /\ UNCHANGED notGitlabVars

(***************************************************************************)
(* Labels built by the Edit form and parsed again                           *)
(***************************************************************************)
\* what is typed into a field: nothing, a plain value, a value holding "::", a value
\* that starts like an ordering prefix, and a value with spaces around it
FieldInputs == { <<>>, vA, vCD, <<"0","1","-","x">>, vB }

EditFormInputs ==
    { [NoForm EXCEPT !.team = t, !.status = s, !.sprint = sp, !.project = p,
                     !.workstream = w, !.milestone = ms] :
        t \in FieldInputs, s \in FieldInputs, sp \in FieldInputs, p \in FieldInputs,
        w \in FieldInputs, ms \in FieldInputs }

\* the labels of the Edit form are built from the fields, and parse_labels is applied
\* to them, as fetch_issues does with what the update stored
BuildAndParse(form) ==
    /\ edit_form = NoForm
    /\ labels = <<>>
    /\ edit_form' = form
    /\ labels' = BuildLabels(form)
    /\ parsed' = parse_labels(labels')
    /\ normalized' = [i \in 1..Len(labels') |-> normalize_label(labels'[i])]
    /\ UNCHANGED notLabelVars

NextRoundTrip == \E form \in EditFormInputs : BuildAndParse(form)

(***************************************************************************)
(* The projects and the interactions the dashboard specification draws from *)
(***************************************************************************)
Issue(title, description, ls, milestone) ==
    [iid |-> 0, title |-> title, description |-> description, labels |-> ls,
     milestone |-> milestone]

\* every field labelled
IssueComplete ==
    Issue(sT, <<"d">>, <<sTeam \o sSep \o vA, sStatus \o sSep \o sDone,
                         sSprint \o sSep \o <<"S">>, sProject \o sSep \o <<"P">> >>, <<>>)
\* a team label behind an ordering prefix, nothing else, no title
IssueBare == Issue(<<>>, <<>>, << <<"0","1","-">> \o <<"t","e","a","m">> \o sSep \o vB >>, <<>>)
\* no team; a label that is no Key::Value pair; a GitLab milestone
IssueNoTeam == Issue(<<"U">>, <<>>, <<sStatus \o sSep \o sDone, <<"b","u","g">> >>, <<"M">>)
\* a status spelled None
IssueStatusNone == Issue(<<"V">>, <<>>, <<sTeam \o sSep \o vA, sStatus \o sSep \o sNone>>, <<>>)

\* iid: the issue's number in the project
Numbered(s) == [i \in 1..Len(s) |-> [s[i] EXCEPT !.iid = i]]

ServerInputs ==
    { Numbered(s) : s \in { <<>>, <<IssueComplete>>, <<IssueBare, IssueComplete>>,
                            <<IssueComplete, IssueBare, IssueNoTeam>>,
                            <<IssueNoTeam, IssueStatusNone, IssueBare>> } }

\* the dashboard before its first script run
InitGitlabIdle ==
    /\ connected = FALSE
    /\ filters = EmptyFilters
    /\ group_by = GroupByOptions[1]
    /\ session_state = EmptySessionState
    /\ selected_sprint = sNone
    /\ selected_issue = 0
    /\ commentary_file = <<>>
    /\ df = <<>>
    /\ filtered = <<>>
    /\ temp_df = <<>>
    /\ swimlane_options = <<>>
    /\ board = <<>>
    /\ missing_count = [f \in HygieneFields |-> 0]
    /\ missing = [field |-> "", iids |-> <<>>]
    /\ rendered = {}
    /\ update_calls = <<>>
    /\ stage = "nocreds"
    /\ event = NoEvent
    /\ runs = 0

InitGitlab ==
    /\ server \in ServerInputs
    /\ InitGitlabIdle

\* the form of issue iid as the page shows it, and with a team and a title typed in
FormInputs(iid) ==
    LET rows == SelectSeq(df, LAMBDA r : r.iid = iid) IN
    IF rows = <<>> THEN {NoForm}
    ELSE {FormOf(rows[1]), [FormOf(rows[1]) EXCEPT !.team = <<"Z">>, !.title = <<"W">>]}

\* clicks on the buttons of the Overview, Kanban and Hygiene tabs
ButtonEvents ==
    {[Ev(b.kind, b.field, b.val, {}, b.iid) EXCEPT !.form = fm] :
        b \in {x \in rendered : x.kind \in {"overview", "card", "missing", "applyfix"}},
        fm \in {NoForm}}
    \cup UNION {{[Ev(b.kind, b.field, b.val, {}, b.iid) EXCEPT !.form = fm] :
                    fm \in FormInputs(b.iid)} :
                b \in {x \in rendered : x.kind = "applyfix"}}

\* the sidebar multiselects set to nothing or to one value, and the radio
WidgetEvents ==
    {Ev("reload", "", <<>>, {}, 0), Ev("connect", "", <<>>, {}, 0)}
    \cup UNION {{Ev("filter", f, <<>>, sel, 0) :
                    sel \in {{}} \cup {{v} : v \in ColumnValues(df, f)}} : f \in FilterFields}
    \cup {Ev("groupby", g, <<>>, {}, 0) : g \in SeqRange(swimlane_options)}

GitlabEvents == ButtonEvents \cup WidgetEvents

NextGitlab ==
    \E e \in {x \in GitlabEvents : EventPossible(x)} : \E apiOk \in BOOLEAN : Run(e, apiOk, TRUE)

(***************************************************************************)
(* The Commentary and Edit tabs: commentary.json as earlier use left it,    *)
(* and the interactions with the two tabs                                   *)
(***************************************************************************)
\* the five text areas left empty, and filled in
TypedTexts == [NoTexts EXCEPT !.Scope = <<"x">>, !.Challenges = <<"r">>]
TextInputs == {NoTexts, TypedTexts}

\* commentary.json absent, and holding the commentary of sprint S and of a sprint
\* that no issue carries any more
EarlierSprintCommentary ==
    DictSet(DictSet(<<>>, <<"S">>, [NoTexts EXCEPT !.Scope = <<"o">>]),
            <<"Q">>, [NoTexts EXCEPT !.KeyDates = <<"k">>])
CommentaryInputs == {<<>>, EarlierSprintCommentary}

\* a project with one issue, and one with issues that lack fields and carry a label
\* that is no Key::Value pair
EditServerInputs ==
    { Numbered(s) : s \in { <<IssueComplete>>, <<IssueComplete, IssueBare, IssueNoTeam>> } }

InitEdit ==
    /\ server \in EditServerInputs
    /\ connected = FALSE
    /\ filters = EmptyFilters
    /\ group_by = GroupByOptions[1]
    /\ session_state = EmptySessionState
    /\ selected_sprint = sNone
    /\ selected_issue = 0
    /\ commentary_file \in CommentaryInputs
    /\ df = <<>>
    /\ filtered = <<>>
    /\ temp_df = <<>>
    /\ swimlane_options = <<>>
    /\ board = <<>>
    /\ missing_count = [f \in HygieneFields |-> 0]
    /\ missing = [field |-> "", iids |-> <<>>]
    /\ rendered = {}
    /\ update_calls = <<>>
    /\ stage = "nocreds"
    /\ event = NoEvent
    /\ runs = 0

\* the two selectboxes, Save Commentary with the text areas' values, and Apply
\* Changes to GitLab with the form's values
EditEvents ==
    {Ev("selsprint", "", v, {}, 0) : v \in SprintOptions(df)}
    \cup {Ev("selissue", "", <<>>, {}, i) : i \in SeqRange(Iids(filtered)) \cup {0}}
    \cup {[Ev("save", "", <<>>, {}, 0) EXCEPT !.texts = t] : t \in TextInputs}
    \cup {[Ev("apply", "", <<>>, {}, 0) EXCEPT !.form = fm] : fm \in FormInputs(selected_issue)}

NextEdit ==
    \E e \in {x \in GitlabEvents \cup EditEvents : EventPossible(x)} :
        \E apiOk \in BOOLEAN :
            \E putOk \in IF e.kind = "apply" THEN BOOLEAN ELSE {TRUE} : Run(e, apiOk, putOk)

(***************************************************************************)
(* Fund Explorer (userhistorytab.py): the commentary file and the activity *)
(* log, written by the script runs of the browser sessions. A script run   *)
(* is a sequence of steps, one per file access.                            *)
(***************************************************************************)
MaxFundRuns == 2

Sessions == {"s1", "s2"}

sF1 == <<"F", "1">>
sF2 == <<"F", "2">>
sAl == <<"a", "l">>
sBo == <<"b", "o">>

EmptyDict == <<>>

\* d.get(k, [])
DictGet(d, k) == IF k \in DOMAIN d THEN d[k] ELSE <<>>

\* the mutant of load_json_file: the stored content is not read
load_json_file_empty(file) == EmptyDict

\* load_json_file: {} for a file that does not exist or does not parse
load_json_file(file) == IF file.kind = "json" THEN file.data ELSE EmptyDict

\* save_json_file
save_json_file(data) == [kind |-> "json", data |-> data]

\* the mutant of AppendTo: the list is replaced by the new entry
AppendToReplacing(d, k, entry) == DictSet(d, k, <<entry>>)

\* if k not in d: d[k] = []; d[k].append(entry)
AppendTo(d, k, entry) == DictSet(d, k, Append(DictGet(d, k), entry))

\* ", ".join(selected_funds)
RECURSIVE JoinFunds(_)
JoinFunds(fs) ==
    IF fs = <<>> THEN <<>>
    ELSE IF Len(fs) = 1 THEN fs[1]
    ELSE fs[1] \o <<",", " ">> \o JoinFunds(Tail(fs))

\* the mutant of CanAppend: the comment is tested without strip()
CanAppendUnstripped(user, comment) == user # <<>> /\ comment # <<>>

\* the Append Commentary branch that calls add_comment
CanAppend(user, comment) == user # <<>> /\ Strip(comment) # <<>>

\* the mutant of AddCommentNext: log_action is called before the commentary is saved
AddCommentNextLogFirst(p) ==
    CASE p = "ac_load" -> "ac_log"
      [] p = "ac_log" -> "ac_save"
      [] p = "ac_save" -> "ac_done"

\* add_comment's statements in order: load, append and save, log_action, return
AddCommentNext(p) ==
    CASE p = "ac_load" -> "ac_save"
      [] p = "ac_save" -> "ac_log"
      [] p = "ac_log" -> "ac_done"

\* get_user_logs: logs.get(user, []) of the log file as it is now
get_user_logs(file, user) == DictGet(load_json_file(file), user)

\* reversed(...)
Reversed(s) == [i \in 1..Len(s) |-> s[Len(s) + 1 - i]]

\* the mutant of LastFive: the first five entries, logs[:5]
LastFiveFromStart(logs) == IF Len(logs) <= 5 THEN logs ELSE SubSeq(logs, 1, 5)

\* logs[-5:]
LastFive(logs) == IF Len(logs) <= 5 THEN logs ELSE SubSeq(logs, Len(logs) - 4, Len(logs))

NoArgs == [user |-> <<>>, action |-> "", details |-> <<>>]
NoComment == [fund |-> <<>>, comment |-> <<>>, user |-> <<>>]

\* a session between two script runs
IdleSession ==
    [pc |-> "idle", username |-> <<>>, selected_fund |-> <<>>, new_comment |-> <<>>,
     clicked |-> FALSE, selected_funds |-> <<>>, funds_found |-> TRUE,
     commentary_data |-> EmptyDict, recent |-> <<>>, history |-> <<>>,
     log_args |-> NoArgs, log_ts |-> 0, logs |-> EmptyDict, ret |-> "idle",
     ac_args |-> NoComment, ac_ts |-> 0, commentary |-> EmptyDict,
     \* history variables: whether this run called add_comment, and the files as
     \* they were when it was called
     called |-> FALSE,
     commentary_at_call |-> EmptyDict, log_at_call |-> EmptyDict]

\* a script run starts: the widgets hold what the user entered, time has passed,
\* and the script loads commentary_data
StartRun(s, user, fund, comment, click, compare, found) ==
    /\ sess[s].pc = "idle"
    /\ now < MaxFundRuns
    /\ now' = now + 1
    /\ sess' = [sess EXCEPT ![s] =
                  [IdleSession EXCEPT !.pc = "sidebar",
                                      !.username = Strip(user),
                                      !.selected_fund = fund,
                                      !.new_comment = comment,
                                      !.clicked = click,
                                      !.selected_funds = compare,
                                      !.funds_found = found,
                                      !.commentary_data = load_json_file(commentary_json)]]
    /\ UNCHANGED <<commentary_json, log_json, notFundVars>>

\* the sidebar's recent activity; the script stops below it when no fund matches
Sidebar(s) ==
    /\ sess[s].pc = "sidebar"
    /\ sess' = [sess EXCEPT
                  ![s].recent = IF sess[s].username # <<>>
                                THEN Reversed(LastFive(get_user_logs(log_json,
                                                                     sess[s].username)))
                                ELSE <<>>,
                  ![s].pc = IF sess[s].funds_found THEN "details" ELSE "end"]
    /\ UNCHANGED <<commentary_json, log_json, now, notFundVars>>

\* Fund Details: log_action(username, "Viewed fund", selected_fund) for a named user
Details(s) ==
    /\ sess[s].pc = "details"
    /\ sess' = IF sess[s].username # <<>>
               THEN [sess EXCEPT ![s].pc = "log_load",
                                 ![s].log_args = [user |-> sess[s].username,
                                                  action |-> "Viewed fund",
                                                  details |-> sess[s].selected_fund],
                                 ![s].ret = "form"]
               ELSE [sess EXCEPT ![s].pc = "form"]
    /\ UNCHANGED <<commentary_json, log_json, now, notFundVars>>

\* log_action: the timestamp and logs = load_json_file(LOG_FILE)
LogLoad(s) ==
    /\ sess[s].pc = "log_load"
    /\ sess' = [sess EXCEPT ![s].pc = "log_save",
                            ![s].log_ts = now,
                            ![s].logs = load_json_file(log_json)]
    /\ UNCHANGED <<commentary_json, log_json, now, notFundVars>>

\* log_action: logs[user].append(...) and save_json_file(LOG_FILE, logs)
LogSave(s) ==
    /\ sess[s].pc = "log_save"
    /\ log_json' = save_json_file(AppendTo(sess[s].logs, sess[s].log_args.user,
                                           [timestamp |-> sess[s].log_ts,
                                            action |-> sess[s].log_args.action,
                                            details |-> sess[s].log_args.details]))
    /\ sess' = [sess EXCEPT ![s].pc = sess[s].ret]
    /\ UNCHANGED <<commentary_json, now, notFundVars>>

\* the Append Commentary button
Form(s) ==
    /\ sess[s].pc = "form"
    /\ sess' = IF sess[s].clicked /\ CanAppend(sess[s].username, sess[s].new_comment)
               THEN [sess EXCEPT ![s].pc = "ac_load",
                                 ![s].ac_args = [fund |-> sess[s].selected_fund,
                                                 comment |-> Strip(sess[s].new_comment),
                                                 user |-> sess[s].username],
                                 ![s].called = TRUE,
                                 ![s].commentary_at_call = load_json_file(commentary_json),
                                 ![s].log_at_call = load_json_file(log_json)]
               ELSE [sess EXCEPT ![s].pc = "compare"]
    /\ UNCHANGED <<commentary_json, log_json, now, notFundVars>>

\* add_comment: the timestamp and commentary = load_json_file(COMMENTARY_FILE)
AcLoad(s) ==
    /\ sess[s].pc = "ac_load"
    /\ sess' = [sess EXCEPT ![s].pc = AddCommentNext("ac_load"),
                            ![s].ac_ts = now,
                            ![s].commentary = load_json_file(commentary_json)]
    /\ UNCHANGED <<commentary_json, log_json, now, notFundVars>>

\* add_comment: commentary[fund_name].append(...) and save_json_file
AcSave(s) ==
    /\ sess[s].pc = "ac_save"
    /\ commentary_json' = save_json_file(AppendTo(sess[s].commentary, sess[s].ac_args.fund,
                                                  [timestamp |-> sess[s].ac_ts,
                                                   comment |-> sess[s].ac_args.comment,
                                                   user |-> sess[s].ac_args.user]))
    /\ sess' = [sess EXCEPT ![s].pc = AddCommentNext("ac_save")]
    /\ UNCHANGED <<log_json, now, notFundVars>>

\* add_comment: log_action(user, "Added commentary", fund_name)
AcLog(s) ==
    /\ sess[s].pc = "ac_log"
    /\ sess' = [sess EXCEPT ![s].pc = "log_load",
                            ![s].log_args = [user |-> sess[s].ac_args.user,
                                             action |-> "Added commentary",
                                             details |-> sess[s].ac_args.fund],
                            ![s].ret = AddCommentNext("ac_log")]
    /\ UNCHANGED <<commentary_json, log_json, now, notFundVars>>

\* add_comment has returned: commentary_data is reloaded, and assigning
\* st.session_state["new_comment"] after its text_area was created raises, which
\* ends the script run
AcDone(s) ==
    /\ sess[s].pc = "ac_done"
    /\ sess' = [sess EXCEPT ![s].pc = "end",
                            ![s].commentary_data = load_json_file(commentary_json)]
    /\ UNCHANGED <<commentary_json, log_json, now, notFundVars>>

\* Compare Funds: log_action(username, "Compared funds", ...) for a named user
Compare(s) ==
    /\ sess[s].pc = "compare"
    /\ sess' = IF sess[s].selected_funds # <<>> /\ sess[s].username # <<>>
               THEN [sess EXCEPT ![s].pc = "log_load",
                                 ![s].log_args = [user |-> sess[s].username,
                                                  action |-> "Compared funds",
                                                  details |-> JoinFunds(sess[s].selected_funds)],
                                 ![s].ret = "history"]
               ELSE [sess EXCEPT ![s].pc = "history"]
    /\ UNCHANGED <<commentary_json, log_json, now, notFundVars>>

\* My History: the user's whole log, most recent first
History(s) ==
    /\ sess[s].pc = "history"
    /\ sess' = [sess EXCEPT
                  ![s].history = IF sess[s].username # <<>>
                                 THEN Reversed(get_user_logs(log_json, sess[s].username))
                                 ELSE <<>>,
                  ![s].pc = "end"]
    /\ UNCHANGED <<commentary_json, log_json, now, notFundVars>>

\* the script run is over; the session waits for the next interaction
EndRun(s) ==
    /\ sess[s].pc = "end"
    /\ sess' = [sess EXCEPT ![s] = IdleSession]
    /\ UNCHANGED <<commentary_json, log_json, now, notFundVars>>

(***************************************************************************)
(* The files and the inputs the Fund Explorer specification draws from      *)
(***************************************************************************)
MissingFile == [kind |-> "missing", data |-> EmptyDict]
CorruptFile == [kind |-> "corrupt", data |-> EmptyDict]

\* files left by earlier use: a comment on F2 and five log entries, all of user bo
EarlierCommentary ==
    save_json_file(AppendTo(EmptyDict, sF2, [timestamp |-> 0, comment |-> <<"o","l","d">>,
                                             user |-> sBo]))
EarlierEntries ==
    [i \in 1..5 |-> [timestamp |-> i - 5,
                     action |-> IF i = 5 THEN "Added commentary" ELSE "Viewed fund",
                     details |-> IF i % 2 = 1 THEN sF2 ELSE sF1]]
EarlierLog == save_json_file(DictSet(EmptyDict, sBo, EarlierEntries))

FileInputs ==
    { <<MissingFile, MissingFile>>, <<CorruptFile, CorruptFile>>,
      <<EarlierCommentary, EarlierLog>> }

InitFundIdle ==
    /\ now = 0
    /\ sess = [s \in Sessions |-> IdleSession]

UserInputs == { <<>>, <<" ">>, <<" ", "a", "l">>, sBo }
FundInputs == { sF1, sF2 }
\* Append Commentary not pressed, and pressed on an empty, a blank and a real comment
PressInputs ==
    { <<FALSE, <<>> >>, <<TRUE, <<>> >>, <<TRUE, <<" ">> >>, <<TRUE, <<" ", "o", "k", " ">> >> }
CompareInputs == { <<>>, <<sF1, sF2>> }

Step(s) ==
    \/ \E user \in UserInputs, fund \in FundInputs, press \in PressInputs,
          compare \in CompareInputs, found \in BOOLEAN :
            StartRun(s, user, fund, press[2], press[1], compare, found)
    \/ Sidebar(s)
    \/ Details(s)
    \/ LogLoad(s)
    \/ LogSave(s)
    \/ Form(s)
    \/ AcLoad(s)
    \/ AcSave(s)
    \/ AcLog(s)
    \/ AcDone(s)
    \/ Compare(s)
    \/ History(s)
    \/ EndRun(s)

\* one browser session
NextFund == \E s \in {"s1"} : Step(s)

\* the user of each of two browser sessions
UserOf(s) == IF s = "s1" THEN sAl ELSE sBo

\* a step of one of two sessions, each run by its script thread: the user views a
\* fund, with or without a comment to append
StepTwo(s) ==
    \/ \E fund \in FundInputs, press \in {<<FALSE, <<>> >>, <<TRUE, <<" ", "o", "k", " ">> >>} :
            StartRun(s, UserOf(s), fund, press[2], press[1], <<>>, TRUE)
    \/ Sidebar(s)
    \/ Details(s)
    \/ LogLoad(s)
    \/ LogSave(s)
    \/ Form(s)
    \/ AcLoad(s)
    \/ AcSave(s)
    \/ AcLog(s)
    \/ AcDone(s)
    \/ Compare(s)
    \/ History(s)
    \/ EndRun(s)

\* two browser sessions, their steps interleaved in any order
NextFundTwo == \E s \in Sessions : StepTwo(s)

(***************************************************************************)
(* Excel loading: load_excel_files_from_folder of utils/file_loader.py and  *)
(* of userhistorytab.py, and detect_fund_column                             *)
(***************************************************************************)
\* sub in s
Contains(s, sub) ==
    \E i \in 1..(Len(s) - Len(sub) + 1) : SubSeq(s, i, i + Len(sub) - 1) = sub

\* str.lower() and str.upper()
Lower(s) == [i \in 1..Len(s) |-> ToLower(s[i])]
Upper(s) == [i \in 1..Len(s) |-> ToUpper(s[i])]

\* s.replace(old, ""): the occurrences of old removed, left to right
RECURSIVE Removed(_, _)
Removed(s, old) ==
    IF s = <<>> THEN <<>>
    ELSE IF StartsWith(s, old) THEN Removed(SubSeq(s, Len(old) + 1, Len(s)), old)
    ELSE <<Head(s)>> \o Removed(Tail(s), old)

\* os.path.splitext(fname)[0]: fname up to its last dot, leading dots apart
SplitExtRoot(fname) ==
    LET leading == IF \A i \in 1..Len(fname) : fname[i] = "." THEN Len(fname)
                   ELSE (CHOOSE i \in 1..Len(fname) :
                            fname[i] # "." /\ \A j \in 1..(i - 1) : fname[j] = ".") - 1
        dots == {i \in (leading + 1)..Len(fname) : fname[i] = "."}
    IN  IF dots = {} THEN fname
        ELSE SubSeq(fname, 1, (CHOOSE i \in dots : \A j \in dots : j <= i) - 1)

sFile == <<"f","i","l","e">>
sFileA == <<"f","i","l","e","a",".","x","l","s","x">>
sXls == <<".","x","l","s">>
sFundName == <<"F","u","n","d"," ","N","a","m","e">>
sNan == <<"n","a","n">>

\* os.path.splitext(fname)[0].replace("file", "").upper()
FundOfFile(fname) == Upper(Removed(SplitExtRoot(fname), sFile))

\* f"{name} ({sheet})"
SourceKey(name, sheet) == name \o <<" ", "(">> \o sheet \o <<")">>

\* glob("*.xls*"): the files of the folder whose name holds ".xls"
Glob(dir) == SelectSeq(dir, LAMBDA f : Contains(f.name, sXls))

\* isinstance(sheets, str): a single sheet name stands for the list of it
SheetList(entry) == IF entry.str THEN <<entry.value>> ELSE entry.value

\* df.empty: no rows or no columns
IsEmptyFrame(frame) == frame.cells = <<>> \/ frame.columns = <<>>

\* the position of column c in the frame, 0 when it has none
ColumnIndex(columns, c) ==
    IF \E i \in 1..Len(columns) : columns[i] = c
    THEN CHOOSE i \in 1..Len(columns) : columns[i] = c ELSE 0

\* df[c] = values: the column is replaced, or added at the end
WithColumn(frame, c, values) ==
    LET k == ColumnIndex(frame.columns, c) IN
    IF k = 0
    THEN [columns |-> Append(frame.columns, c),
          cells |-> [r \in 1..Len(frame.cells) |-> Append(frame.cells[r], values[r])]]
    ELSE [columns |-> frame.columns,
          cells |-> [r \in 1..Len(frame.cells) |-> [frame.cells[r] EXCEPT ![k] = values[r]]]]

\* the sheets of one file that load: an entry is skipped when the sheet is not in
\* xls.sheet_names, when pd.read_excel raises and when the sheet is empty
RECURSIVE LoadSheetsByFund(_, _, _)
LoadSheetsByFund(file, sheets, dfs) ==
    IF sheets = <<>> THEN dfs
    ELSE LET sheet == Head(sheets)
             fund_name == FundOfFile(file.name)
         IN  IF sheet \notin DOMAIN file.sheets THEN LoadSheetsByFund(file, Tail(sheets), dfs)
             ELSE IF ~file.sheets[sheet].reads THEN LoadSheetsByFund(file, Tail(sheets), dfs)
             ELSE IF IsEmptyFrame(file.sheets[sheet].frame)
                  THEN LoadSheetsByFund(file, Tail(sheets), dfs)
             ELSE LET frame == file.sheets[sheet].frame IN
                  LoadSheetsByFund(file, Tail(sheets),
                      DictSet(dfs, SourceKey(fund_name, sheet),
                              WithColumn(frame, sFundName,
                                         [r \in 1..Len(frame.cells) |-> fund_name])))

\* the loop over the files: a file is skipped when it is not in sheet_mapping and
\* when pd.ExcelFile raises
RECURSIVE LoadFilesByFund(_, _, _)
LoadFilesByFund(files, mapping, dfs) ==
    IF files = <<>> THEN dfs
    ELSE LET file == Head(files) IN
         IF file.name \notin DOMAIN mapping THEN LoadFilesByFund(Tail(files), mapping, dfs)
         ELSE IF ~file.opens THEN LoadFilesByFund(Tail(files), mapping, dfs)
         ELSE LoadFilesByFund(Tail(files), mapping,
                              LoadSheetsByFund(file, SheetList(mapping[file.name]), dfs))

\* utils/file_loader.py: load_excel_files_from_folder
file_loader_load_excel_files_from_folder(dir, mapping) ==
    LoadFilesByFund(Glob(dir), mapping, <<>>)

\* DEFAULT_FUND_COL_CANDIDATES
DEFAULT_FUND_COL_CANDIDATES ==
    <<<<"F","u","n","d"," ","N","a","m","e">>,
      <<"F","u","n","d","N","a","m","e">>,
      <<"F","u","n","d">>,
      <<"f","u","n","d","_","n","a","m","e">>,
      <<"f","u","n","d">>,
      <<"N","a","m","e">>,
      <<"F","u","n","d","_","C","o","d","e">>,
      <<"F","u","n","d"," ","C","o","d","e">>,
      <<"F","u","n","d","I","d">>,
      <<"P","o","r","t","f","o","l","i","o">>>>

sFund == <<"f","u","n","d">>
sName == <<"n","a","m","e">>

\* detect_fund_column's result: a column, or None
SomeColumn(c) == [found |-> TRUE, col |-> c]
NoColumn == [found |-> FALSE, col |-> <<>>]

\* c.strip().lower()
NormalizedCol(c) == Lower(Strip(c))

\* _normalize_col_lookup: of the columns with one normalised name the dict keeps the last
NormalizeColLookup(columns) ==
    [k \in {NormalizedCol(columns[i]) : i \in 1..Len(columns)} |->
        columns[CHOOSE i \in 1..Len(columns) :
                    /\ NormalizedCol(columns[i]) = k
                    /\ \A j \in (i + 1)..Len(columns) : NormalizedCol(columns[j]) # k]]

\* for c in df.columns: if P(c): return c
FirstColumn(columns, P(_)) ==
    LET hits == {i \in 1..Len(columns) : P(columns[i])} IN
    IF hits = {} THEN NoColumn
    ELSE SomeColumn(columns[CHOOSE i \in hits : \A j \in hits : i <= j])

\* the mutant of CandidateMatch: the candidates are tried from the last to the first
CandidateMatchLastFirst(columns) ==
    LET lookup == NormalizeColLookup(columns)
        hits == {n \in 1..Len(DEFAULT_FUND_COL_CANDIDATES) :
                    NormalizedCol(DEFAULT_FUND_COL_CANDIDATES[n]) \in DOMAIN lookup}
    IN  IF hits = {} THEN NoColumn
        ELSE SomeColumn(lookup[NormalizedCol(DEFAULT_FUND_COL_CANDIDATES[
                                   CHOOSE n \in hits : \A o \in hits : o <= n])])

\* 2) the first candidate, in list order, whose normalised name is a key of the lookup
CandidateMatch(columns) ==
    LET lookup == NormalizeColLookup(columns)
        hits == {n \in 1..Len(DEFAULT_FUND_COL_CANDIDATES) :
                    NormalizedCol(DEFAULT_FUND_COL_CANDIDATES[n]) \in DOMAIN lookup}
    IN  IF hits = {} THEN NoColumn
        ELSE SomeColumn(lookup[NormalizedCol(DEFAULT_FUND_COL_CANDIDATES[
                                   CHOOSE n \in hits : \A o \in hits : n <= o])])

\* 1) the per-file override, when a column equals it
OverrideMatch(columns, fname, overrides) ==
    IF fname \notin DOMAIN overrides THEN NoColumn
    ELSE FirstColumn(columns, LAMBDA c : NormalizedCol(c) = NormalizedCol(overrides[fname]))

\* 3) and 4) the heuristics
FundAndName(c) == Contains(NormalizedCol(c), sFund) /\ Contains(NormalizedCol(c), sName)
FundLike(c) ==
    \/ NormalizedCol(c) = sFund
    \/ StartsWith(NormalizedCol(c), sFund)
    \/ Contains(NormalizedCol(c), sFund)
NamedName(c) == NormalizedCol(c) = sName

\* detect_fund_column
detect_fund_column(columns, fname, overrides) ==
    IF OverrideMatch(columns, fname, overrides).found
    THEN OverrideMatch(columns, fname, overrides)
    ELSE IF CandidateMatch(columns).found THEN CandidateMatch(columns)
    ELSE IF FirstColumn(columns, FundAndName).found THEN FirstColumn(columns, FundAndName)
    ELSE IF FirstColumn(columns, FundLike).found THEN FirstColumn(columns, FundLike)
    ELSE FirstColumn(columns, NamedName)

\* a missing cell of a sheet, and .astype(str)
NaN == <<"NaN">>
AsStr(v) == IF v = NaN THEN sNan ELSE v

\* the mutant of AddDetected: a sheet without a detected fund column is kept as it is
AddDetectedOrKeep(dfs, fname, sheet, frame, overrides) ==
    LET fund_col == detect_fund_column(frame.columns, fname, overrides) IN
    IF ~fund_col.found THEN DictSet(dfs, SourceKey(fname, sheet), frame)
    ELSE DictSet(dfs, SourceKey(fname, sheet),
                 WithColumn(frame, sFundName,
                            [r \in 1..Len(frame.cells) |->
                                AsStr(frame.cells[r][ColumnIndex(frame.columns, fund_col.col)])]))

\* fund_col = detect_fund_column(df, fname); a sheet without one is skipped, the
\* others get df["Fund Name"] = df[fund_col].astype(str)
AddDetected(dfs, fname, sheet, frame, overrides) ==
    LET fund_col == detect_fund_column(frame.columns, fname, overrides) IN
    IF ~fund_col.found THEN dfs
    ELSE DictSet(dfs, SourceKey(fname, sheet),
                 WithColumn(frame, sFundName,
                            [r \in 1..Len(frame.cells) |->
                                AsStr(frame.cells[r][ColumnIndex(frame.columns, fund_col.col)])]))

RECURSIVE LoadSheets(_, _, _, _)
LoadSheets(file, sheets, dfs, overrides) ==
    IF sheets = <<>> THEN dfs
    ELSE LET sheet == Head(sheets) IN
         IF sheet \notin DOMAIN file.sheets THEN LoadSheets(file, Tail(sheets), dfs, overrides)
         ELSE IF ~file.sheets[sheet].reads THEN LoadSheets(file, Tail(sheets), dfs, overrides)
         ELSE IF IsEmptyFrame(file.sheets[sheet].frame)
              THEN LoadSheets(file, Tail(sheets), dfs, overrides)
         ELSE LoadSheets(file, Tail(sheets),
                         AddDetected(dfs, file.name, sheet, file.sheets[sheet].frame, overrides),
                         overrides)

\* the mutant of LoadFiles: a file that does not open ends the loading
RECURSIVE LoadFilesUntilError(_, _, _, _)
LoadFilesUntilError(files, mapping, dfs, overrides) ==
    IF files = <<>> THEN dfs
    ELSE LET file == Head(files) IN
         IF file.name \notin DOMAIN mapping
         THEN LoadFilesUntilError(Tail(files), mapping, dfs, overrides)
         ELSE IF ~file.opens THEN dfs
         ELSE LoadFilesUntilError(Tail(files), mapping,
                        LoadSheets(file, SheetList(mapping[file.name]), dfs, overrides), overrides)

RECURSIVE LoadFiles(_, _, _, _)
LoadFiles(files, mapping, dfs, overrides) ==
    IF files = <<>> THEN dfs
    ELSE LET file == Head(files) IN
         IF file.name \notin DOMAIN mapping THEN LoadFiles(Tail(files), mapping, dfs, overrides)
         ELSE IF ~file.opens THEN LoadFiles(Tail(files), mapping, dfs, overrides)
         ELSE LoadFiles(Tail(files), mapping,
                        LoadSheets(file, SheetList(mapping[file.name]), dfs, overrides), overrides)

\* userhistorytab.py: load_excel_files_from_folder
load_excel_files_from_folder(dir, mapping, overrides) ==
    LoadFiles(Glob(dir), mapping, <<>>, overrides)

\* utils/file_loader.py: dataframes = load_excel_files_from_folder(folder, SHEET_MAPPING)
LoadByFund ==
    /\ ~by_fund.loaded
    /\ by_fund' = [loaded |-> TRUE,
                   dfs |-> file_loader_load_excel_files_from_folder(folder, sheet_mapping)]
    /\ UNCHANGED <<folder, sheet_mapping, fund_col_overrides, dataframes, selected_sources,
                   combined_columns, load_stage, detect_columns, detected>>
    /\ UNCHANGED notLoaderVars

\* userhistorytab.py: dataframes = load_excel_files_from_folder(...); the script
\* stops when nothing was loaded
LoadData ==
    /\ load_stage = "idle"
    /\ \E dfs \in {load_excel_files_from_folder(folder, sheet_mapping, fund_col_overrides)} :
          /\ dataframes' = dfs
          /\ load_stage' = IF DOMAIN dfs = {} THEN "nodata" ELSE "loaded"
    /\ UNCHANGED <<folder, sheet_mapping, fund_col_overrides, by_fund, selected_sources,
                   combined_columns, detect_columns, detected>>
    /\ UNCHANGED notLoaderVars

\* the columns of pd.concat(filtered_dfs, sort=False)
ConcatColumns(dfs, sources) == UNION {SeqRange(dfs[k].columns) : k \in sources}

\* the source multiselect and the combined table: the script stops when no source is
\* selected and when the combined table has no 'Fund Name' column
SelectSources(sources) ==
    /\ load_stage = "loaded"
    /\ sources \subseteq DOMAIN dataframes
    /\ selected_sources' = sources
    /\ combined_columns' = ConcatColumns(dataframes, sources)
    /\ load_stage' = IF sources = {} THEN "nosources"
                     ELSE IF sFundName \notin ConcatColumns(dataframes, sources)
                          THEN "internal_error"
                     ELSE "combined"
    /\ UNCHANGED <<folder, sheet_mapping, fund_col_overrides, dataframes, by_fund,
                   detect_columns, detected>>
    /\ UNCHANGED notLoaderVars

\* detect_fund_column applied to the columns of a sheet of filea.xlsx
DetectFundColumn ==
    /\ ~detected.done
    /\ detected' = [done |-> TRUE,
                    result |-> detect_fund_column(detect_columns, sFileA, fund_col_overrides)]
    /\ UNCHANGED <<folder, sheet_mapping, fund_col_overrides, dataframes, by_fund,
                   selected_sources, combined_columns, load_stage, detect_columns>>
    /\ UNCHANGED notLoaderVars

(***************************************************************************)
(* The folders, mappings and sheets the loading specifications draw from    *)
(***************************************************************************)
MaxFiles == 2
MaxColumns == 2

sS1 == <<"S","1">>
sS2 == <<"S","2">>
sS3 == <<"S","3">>
sS9 == <<"S","9">>
sAmt == <<"A","m","t">>

Sheet(reads, frame) == [reads |-> reads, frame |-> frame]
ExcelFile(name, opens, sheets) == [name |-> name, opens |-> opens, sheets |-> sheets]

\* a sheet with a Fund column, one cell of it missing
FrameFunds ==
    [columns |-> <<<<"F","u","n","d">>, sAmt>>, cells |-> << << <<"X">>, <<"1">> >>, <<NaN, <<"2">> >> >>]
\* a sheet with a Name column
FrameNames == [columns |-> <<<<"N","a","m","e">>, sAmt>>, cells |-> << << <<"Y">>, <<"3">> >> >>]
\* a sheet with a header and no rows
FrameEmpty == [columns |-> <<<<"F","u","n","d">>>>, cells |-> <<>>]
\* a sheet without a fund column
FrameNoFund == [columns |-> <<sAmt>>, cells |-> << << <<"4">> >> >>]

FileInFolder ==
    { ExcelFile(sFileA, TRUE, DictSet(DictSet(<<>>, sS1, Sheet(TRUE, FrameFunds)),
                                       sS2, Sheet(TRUE, FrameEmpty))),
      ExcelFile(<<"a",".","x","l","s","x">>, TRUE, DictSet(<<>>, sS1, Sheet(TRUE, FrameNames))),
      ExcelFile(<<"f","i","l","e","b",".","x","l","s">>, FALSE, <<>>),
      ExcelFile(<<"f","i","l","e","c",".","x","l","s","x">>, TRUE,
                DictSet(DictSet(DictSet(<<>>, sS1, Sheet(FALSE, FrameFunds)),
                                sS3, Sheet(TRUE, FrameNoFund)),
                        sS2, Sheet(TRUE, FrameNames))),
      ExcelFile(<<"n","o","t","e","s",".","x","l","s","x">>, TRUE, DictSet(<<>>, sS1, Sheet(TRUE, FrameFunds))),
      ExcelFile(<<"x",".","c","s","v">>, TRUE, DictSet(<<>>, sS1, Sheet(TRUE, FrameFunds))) }

\* the folder as glob lists it: files of different names, in any order
FolderInputs ==
    UNION { {dir \in [1..n -> FileInFolder] :
                \A i \in 1..n, j \in 1..n : i # j => dir[i].name # dir[j].name} :
            n \in 0..MaxFiles }

OneSheet(s) == [str |-> TRUE, value |-> s]
Sheets(l) == [str |-> FALSE, value |-> l]

\* SHEET_MAPPING: a sheet name or a list of sheet names per file name
MappingInputs ==
    { DictSet(DictSet(DictSet(DictSet(<<>>, sFileA, OneSheet(sS1)),
                              <<"a",".","x","l","s","x">>, Sheets(<<sS1>>)),
                      <<"f","i","l","e","b",".","x","l","s">>, OneSheet(sS1)),
              <<"f","i","l","e","c",".","x","l","s","x">>, Sheets(<<sS1, sS3, sS9>>)),
      DictSet(DictSet(DictSet(<<>>, sFileA, Sheets(<<sS2, sS9, sS1>>)),
                      <<"f","i","l","e","b",".","x","l","s">>, OneSheet(sS1)),
              <<"f","i","l","e","c",".","x","l","s","x">>, Sheets(<<sS3, sS2>>)) }

\* the header of a sheet: up to MaxColumns of these names
ColumnNames ==
    { <<" ","F","u","n","d"," ","N","a","m","e"," ">>, <<"F","U","N","D">>, <<"f","u","n","d"," ">>, <<"n","a","m","e">>, <<"P","o","r","t","f","o","l","i","o">>, <<"N","a","m","e","O","f","F","u","n","d">>, <<"X","F","u","n","d">>,
      sAmt, <<"t","i","c","k","e","r"," ">> }
ColumnInputs == UNION { [1..n -> ColumnNames] : n \in 0..MaxColumns }

\* FILE_FUND_COL_MAPPING: empty, and with an override for filea.xlsx
OverrideInputs == { <<>>, DictSet(<<>>, sFileA, <<" ","T","i","c","k","e","r">>) }

InitLoaderIdle ==
    /\ folder = <<>>
    /\ sheet_mapping = <<>>
    /\ fund_col_overrides = <<>>
    /\ dataframes = <<>>
    /\ by_fund = [loaded |-> FALSE, dfs |-> <<>>]
    /\ selected_sources = {}
    /\ combined_columns = {}
    /\ load_stage = "idle"
    /\ detect_columns = <<>>
    /\ detected = [done |-> FALSE, result |-> NoColumn]

InitLoader ==
    /\ folder \in FolderInputs
    /\ sheet_mapping \in MappingInputs
    /\ fund_col_overrides = <<>>
    /\ dataframes = <<>>
    /\ by_fund = [loaded |-> FALSE, dfs |-> <<>>]
    /\ selected_sources = {}
    /\ combined_columns = {}
    /\ load_stage = "idle"
    /\ detect_columns = <<>>
    /\ detected = [done |-> TRUE, result |-> NoColumn]

InitDetect ==
    /\ folder = <<>>
    /\ sheet_mapping = <<>>
    /\ fund_col_overrides \in OverrideInputs
    /\ dataframes = <<>>
    /\ by_fund = [loaded |-> TRUE, dfs |-> <<>>]
    /\ selected_sources = {}
    /\ combined_columns = {}
    /\ load_stage = "nodata"
    /\ detect_columns \in ColumnInputs
    /\ detected = [done |-> FALSE, result |-> NoColumn]

NextLoader ==
    \/ LoadByFund
    \/ LoadData
    \/ \E sources \in SUBSET DOMAIN dataframes : SelectSources(sources)

NextDetect == DetectFundColumn

(***************************************************************************)
(* The CSV export (gitlab.py): the paginated fetch of a project's issues    *)
(* and the table with one column per label                                  *)
(***************************************************************************)
\* the characters from " " to "~" in code point order, the double quote, the
\* backslash and the backquote left out
Ascii ==
    <<" ","!","#","$","%","&","'","(",")","*","+",",","-",".","/","0","1","2","3","4","5","6","7","8","9",":",";","<","=",">","?","@","A","B","C","D","E","F","G","H","I","J","K","L","M","N","O","P","Q","R","S","T","U","V","W","X","Y","Z","[","]","^","_","a","b","c","d","e","f","g","h","i","j","k","l","m","n","o","p","q","r","s","t","u","v","w","x","y","z","{","|","}","~">>

\* the decimal digits, in order
DecimalDigits == <<"0","1","2","3","4","5","6","7","8","9">>

\* the rank of ord(c)
Ord(c) == CHOOSE i \in 1..Len(Ascii) : Ascii[i] = c

\* a < b for str
RECURSIVE StrLess(_, _)
StrLess(a, b) ==
    IF b = <<>> THEN FALSE
    ELSE IF a = <<>> THEN TRUE
    ELSE IF Head(a) = Head(b) THEN StrLess(Tail(a), Tail(b))
    ELSE Ord(Head(a)) < Ord(Head(b))

\* the mutant of Sorted: the labels in decreasing order
RECURSIVE SortedDescending(_)
SortedDescending(S) ==
    IF S = {} THEN <<>>
    ELSE LET top == CHOOSE x \in S : \A y \in S \ {x} : StrLess(y, x)
         IN  <<top>> \o SortedDescending(S \ {top})

\* sorted(all_labels)
RECURSIVE Sorted(_)
Sorted(S) ==
    IF S = {} THEN <<>>
    ELSE LET least == CHOOSE x \in S : \A y \in S \ {x} : StrLess(x, y)
         IN  <<least>> \o Sorted(S \ {least})

\* str(n) of a number that is not negative
RECURSIVE IntStr(_)
IntStr(n) ==
    IF n < 10 THEN <<DecimalDigits[n + 1]>>
    ELSE IntStr(n \div 10) \o <<DecimalDigits[(n % 10) + 1]>>

\* a response of GET /projects/:id/issues
Response(status, issues) == [status_code |-> status, json |-> issues]

\* what the API answers for a page: the pages it holds, and [] beyond them
Get(pg) == IF pg <= Len(api_pages) THEN api_pages[pg] ELSE Response(200, <<>>)

\* the pages the API holds at most
MaxPages == 3

\* the mutant of NextPage: every second page is requested
NextPageSkipping(pg) == pg + 2

\* page += 1
NextPage(pg) == pg + 1

\* one pass of the while loop: the request, the two breaks, extend and page += 1
FetchPage ==
    /\ export_pc = "fetch"
    /\ page <= MaxPages + 1
    /\ requested' = Append(requested, page)
    /\ \E response \in {Get(page)} :
          IF response.status_code # 200 \/ response.json = <<>>
          THEN /\ export_pc' = "labels"
               /\ UNCHANGED <<all_issues, page>>
          ELSE /\ all_issues' = all_issues \o response.json
               /\ page' = NextPage(page)
               /\ UNCHANGED export_pc
    /\ UNCHANGED <<api_pages, sorted_labels, output_file>>
    /\ UNCHANGED notExportVars

\* all_labels: the set of the labels of all issues
AllLabels(issues) == UNION {SeqRange(issues[i].labels) : i \in 1..Len(issues)}

\* all_labels = set(); update per issue; sorted_labels = sorted(all_labels)
CollectLabels ==
    /\ export_pc = "labels"
    /\ sorted_labels' = Sorted(AllLabels(all_issues))
    /\ export_pc' = "csv"
    /\ UNCHANGED <<api_pages, page, all_issues, requested, output_file>>
    /\ UNCHANGED notExportVars

\* the header row
BaseColumns ==
    << <<"I","I","D">>, <<"T","i","t","l","e">>, <<"S","t","a","t","e">>, <<"A","u","t","h","o","r">>, <<"A","s","s","i","g","n","e","e">>, <<"C","r","e","a","t","e","d"," ","A","t">>, <<"D","u","e"," ","D","a","t","e">> >>

\* the row of an issue: the base fields and 1 or 0 per label, as csv.writer writes
\* them
CsvRow(issue, cols) ==
    << IntStr(issue.iid), issue.title, issue.state, issue.author,
       issue.assignee, issue.created_at, issue.due_date >>
    \o [j \in 1..Len(cols) |-> IF cols[j] \in SeqRange(issue.labels) THEN IntStr(1) ELSE IntStr(0)]

\* open(OUTPUT_FILE, "w"): the header, then one row per issue
WriteCsv ==
    /\ export_pc = "csv"
    /\ output_file' = [written |-> TRUE,
                       rows |-> <<BaseColumns \o sorted_labels>>
                                \o [i \in 1..Len(all_issues) |-> CsvRow(all_issues[i], sorted_labels)]]
    /\ export_pc' = "done"
    /\ UNCHANGED <<api_pages, page, all_issues, requested, sorted_labels>>
    /\ UNCHANGED notExportVars

(***************************************************************************)
(* The projects the export specification draws from                         *)
(***************************************************************************)
ExportIssue(iid, assignee, ls) ==
    [iid |-> iid, title |-> <<"T">>, state |-> <<"o","p","e","n","e","d">>, author |-> sAl,
     assignee |-> assignee, created_at |-> <<"2","0","2","4">>, due_date |-> <<>>, labels |-> ls]

PageInputs ==
    { Response(500, <<>>),
      Response(200, <<>>),
      Response(200, << ExportIssue(12, sBo, <<<<"b","u","g">>, <<"T","e","a","m",":",":","A">>>>), ExportIssue(7, <<>>, <<>>) >>),
      Response(200, << ExportIssue(3, <<>>, <<<<"a">>, <<"b","u","g">>, <<"B">>>>) >>) }

ProjectInputs == UNION { [1..n -> PageInputs] : n \in 0..MaxPages }

InitExportIdle ==
    /\ api_pages = <<>>
    /\ page = 1
    /\ all_issues = <<>>
    /\ requested = <<>>
    /\ sorted_labels = <<>>
    /\ output_file = [written |-> FALSE, rows |-> <<>>]
    /\ export_pc = "done"

InitExport ==
    /\ api_pages \in ProjectInputs
    /\ page = 1
    /\ all_issues = <<>>
    /\ requested = <<>>
    /\ sorted_labels = <<>>
    /\ output_file = [written |-> FALSE, rows |-> <<>>]
    /\ export_pc = "fetch"

NextExport ==
    \/ FetchPage
    \/ CollectLabels
    \/ WriteCsv

(***************************************************************************)
(* Claims about normalize_label and parse_labels (SpecLabels)              *)
(***************************************************************************)
SetMax(S) == CHOOSE x \in S : \A y \in S : y <= x
SetMin(S) == CHOOSE x \in S : \A y \in S : x <= y

\* s without its surrounding whitespace, stated by positions: from the first to the
\* last character that is not whitespace
Trimmed(s) ==
    LET solid == {i \in 1..Len(s) : s[i] \notin Whitespace} IN
    IF solid = {} THEN <<>> ELSE SubSeq(s, SetMin(solid), SetMax(solid))

\* the text before, and after, the first "::" of s
KeyPart(s) == SubSeq(s, 1, SetMin(SepPositions(s)) - 1)
ValuePart(s) == SubSeq(s, SetMin(SepPositions(s)) + 2, Len(s))

\* the normalized label n has a key that, title-cased, starts with the name of field f
KeyMatches(n, f) ==
    /\ SepPositions(n) # {}
    /\ StartsWith(Title(KeyPart(n)), FieldText(f))

MatchingLabels(f) == {i \in 1..Len(labels) : KeyMatches(normalized[i], f)}

\* C5: every field of parse_labels' result is the stripped value part (the text after
\* the first "::") of the last label of the list whose normalized, title-cased key
\* starts with the field's name, and empty when the list has no such label; so labels
\* without "::" and labels with another key change nothing.
C5_ParseLabelsLastMatchWins ==
    \A f \in FieldNames :
        parsed[f] = IF MatchingLabels(f) = {} THEN <<>>
                    ELSE Trimmed(ValuePart(labels[SetMax(MatchingLabels(f))]))

\* two Team labels with different values were parsed and the later one, which carries
\* an ordering prefix, gave the field its value
C5_Witness ==
    /\ Len(labels) = 2
    /\ labels[1] = sTeam \o sSep \o vA
    /\ labels[2] = <<"0","1","-">> \o sTeam \o sSep \o vB
    /\ parsed.Team = <<"B">>
    /\ parsed.Status = <<>>

\* what the claim says normalize_label returns for raw
NormalizedAsClaimed(raw) ==
    LET s == Trimmed(raw) IN
    IF s = <<>> \/ s[1] \notin Digits THEN s
    ELSE LET nd == SetMax({n \in 1..Len(s) : \A k \in 1..n : s[k] \in Digits})
             h == IF nd < Len(s) /\ s[nd + 1] = "-" THEN 1 ELSE 0
             nw == SetMax({n \in 0..(Len(s) - nd - h) :
                             \A k \in 1..n : s[nd + h + k] \in Whitespace})
         IN  SubSeq(s, nd + h + nw + 1, Len(s))

\* digits, at most one hyphen, whitespace: the ordering prefixes among the inputs
OrderingPrefixes == { <<"0","1","-">>, <<" ","2","-"," ">>, <<"6","\t"," ">> }

\* C6: normalize_label returns the label stripped and then, at the start only, without
\* one run of digits, at most one hyphen after it and the whitespace after that; a
\* label not starting with a digit is only stripped; and a Key::Value label behind an
\* ordering prefix such as "01-" is parsed as without the prefix.
C6_NormalizeLabel ==
    /\ \A i \in 1..Len(labels) : normalized[i] = NormalizedAsClaimed(labels[i])
    /\ \A p \in OrderingPrefixes :
          /\ labels = <<p \o sTeam \o sSep \o vB>> => parsed.Team = <<"B">>
          /\ labels = <<p \o sSprint \o sSep \o <<"7">> >> => parsed.Sprint = <<"7">>

\* a label with the prefix "01-" was normalized to its Key::Value text and parsed
C6_Witness ==
    /\ labels = << <<"0","1","-">> \o sTeam \o sSep \o vB >>
    /\ normalized[1] = sTeam \o sSep \o <<" ", "B">>
    /\ parsed.Team = <<"B">>


(***************************************************************************)
(* Claim about building and parsing labels (SpecRoundTrip)                  *)
(***************************************************************************)
\* a field value that is empty or has no whitespace at either end
NoOuterWhitespace(v) == v = <<>> \/ (v[1] \notin Whitespace /\ v[Len(v)] \notin Whitespace)

\* the six fields of a form, and of what parse_labels returns
SixFields(r) == <<r.team, r.status, r.sprint, r.project, r.workstream, r.milestone>>
SixParsed(r) == <<r.Team, r.Status, r.Sprint, r.Project, r.Workstream, r.Milestone>>

\* C22: when no non-empty field of the Edit form has whitespace at either end,
\* parse_labels applied to the labels built from the form returns the six values of
\* the form, an empty field as empty.
C22_BuildParseRoundTrip ==
    (\A k \in 1..6 : NoOuterWhitespace(SixFields(edit_form)[k])) =>
        SixParsed(parsed) = SixFields(edit_form)

\* four labels were built and parsed: a value holding "::", a value that starts with
\* digits and a hyphen, two empty fields
C22_Witness ==
    /\ Len(labels) = 4
    /\ edit_form.team = vCD
    /\ edit_form.status = <<"0","1","-","x">>
    /\ edit_form.sprint = <<>>
    /\ edit_form.workstream = <<>>
    /\ parsed.Team = vCD
    /\ parsed.Status = <<"0","1","-","x">>
    /\ parsed.Sprint = <<>>
    /\ labels[1] = sTeam \o sSep \o vCD

(***************************************************************************)
(* Claims about the GitLab issue dashboard (SpecGitlab)                     *)
(***************************************************************************)
\* the currently filtered set: the fetched issues that pass every sidebar filter in use
FilteredSet ==
    {r \in SeqRange(df) : \A f \in FilterFields : filters[f] # {} => r[f] \in filters[f]}

MissingOf(f) == {r \in FilteredSet : r[f] = <<>>}

\* C7: for each hygiene field, the count shown and the issues listed on a click are
\* exactly the issues of the currently filtered set whose value for the field is the
\* empty string.
C7_HygieneExact ==
    stage = "done" =>
        \A f \in HygieneFields :
            /\ missing_count[f] = Cardinality(MissingOf(f))
            /\ missing.field = f =>
                  /\ SeqRange(missing.iids) = {r.iid : r \in MissingOf(f)}
                  /\ Len(missing.iids) = Cardinality(MissingOf(f))

\* the Sprint Missing button was clicked under a sidebar filter that hides an issue
\* without a sprint: one such issue is listed, the hidden one is not
C7_Witness ==
    /\ stage = "done"
    /\ event.kind = "missing"
    /\ missing.field = "sprint"
    /\ Len(missing.iids) = 1
    /\ missing_count["sprint"] = 1
    /\ \E r \in SeqRange(df) : r.sprint = <<>> /\ r \notin FilteredSet

\* C8 (as claimed): the script run of a click on Apply Fix, run to its end, has called
\* update_issue for that issue with the title, description and labels of its form.
C8_HygieneFixApplied ==
    (event.kind = "applyfix" /\ stage = "done") =>
        \E k \in 1..Len(update_calls) :
            /\ update_calls[k].iid = event.iid
            /\ update_calls[k].title = event.form.title
            /\ update_calls[k].description = event.form.description
            /\ update_calls[k].labels = BuildLabels(event.form)

\* the lane the claim names for a row under the grouping field gf
LaneOf(r, gf) == IF r[gf] = <<>> THEN sNone ELSE r[gf]

\* where the card of issue iid is on the board
CardPlaces(iid) ==
    {<<k, j>> \in (1..Len(board)) \X (1..Len(df)) :
        j <= Len(board[k].cards) /\ board[k].cards[j] = iid}

\* C9: under the chosen grouping every issue of the filtered set is on the board once,
\* in the lane named by its value for the grouping field ("None" for an empty value);
\* the lanes have distinct names and hold no other card.
C9_KanbanPartition ==
    stage \in {"crashed", "done"} =>
        /\ \A r \in FilteredSet :
              /\ Cardinality(CardPlaces(r.iid)) = 1
              /\ \A pl \in CardPlaces(r.iid) : board[pl[1]].lane = LaneOf(r, GroupField(group_by))
        /\ \A k \in 1..Len(board) :
              /\ SeqRange(board[k].cards) \subseteq {r.iid : r \in FilteredSet}
              /\ \A k2 \in 1..Len(board) : board[k2].lane = board[k].lane => k2 = k

\* grouped by status, the board has a lane None holding both an issue without a status
\* and an issue whose status is spelled None, beside another lane
C9_Witness ==
    /\ stage = "done"
    /\ group_by = "Status"
    /\ Len(board) = 2
    /\ \E k \in 1..Len(board) :
          /\ board[k].lane = sNone
          /\ Len(board[k].cards) = 2
          /\ \E r \in FilteredSet : r.status = <<>> /\ r.iid \in SeqRange(board[k].cards)
          /\ \E r \in FilteredSet : r.status = sNone /\ r.iid \in SeqRange(board[k].cards)

\* C10 (as claimed): status, team and sprint are each an option of the swimlane radio.
C10_ThreeGroupings ==
    stage \in {"crashed", "done"} =>
        {"Status", "Team", "Sprint"} \subseteq SeqRange(swimlane_options)

\* C10 (amended): the swimlane radio offers exactly Status and Team; the board is
\* grouped by the one selected, and never by sprint.
C10_StatusAndTeamOnly ==
    stage \in {"crashed", "done"} =>
        /\ SeqRange(swimlane_options) = {"Status", "Team"}
        /\ group_by \in {"Status", "Team"}
        /\ event.kind = "groupby" => group_by = event.field
        /\ \A r \in FilteredSet :
              \E k \in 1..Len(board) : board[k].lane = LaneOf(r, GroupField(group_by))

\* Team was selected on the radio and the board is grouped by team
C10_Witness ==
    /\ stage = "done"
    /\ event.kind = "groupby"
    /\ group_by = "Team"
    /\ \E k \in 1..Len(board) : board[k].lane = <<"B">>
    /\ \E k \in 1..Len(board) : board[k].lane = sNone

\* the run that ends in the primed state was triggered by a click on the Overview
\* button of value v of field f
ClickedValue(f, v) == event'.kind = "overview" /\ event'.field = f /\ event'.val = v

\* the run that ends in the primed state was triggered by a click on some Overview
\* button of field f
ClickedField(f) == event'.kind = "overview" /\ event'.field = f

\* the rows of df the issues table shows
TableRows == SelectSeq(df, LAMBDA r : r.iid \in SeqRange(temp_df))

\* the issues table shows only issues that carry the value of every filter set
TableHonoursFilters ==
    \A f \in OverviewFields :
        session_state[SessionKey(f)] # <<>> =>
            \A i \in 1..Len(TableRows) :
                ReplaceNone(TableRows[i][f]) = session_state[SessionKey(f)]

\* a filter set stays as it is in a run that no button of its field triggered
FilterKept(f) ==
    (session_state[SessionKey(f)] # <<>> /\ ~ClickedField(f)) =>
        session_state'[SessionKey(f)] = session_state[SessionKey(f)]

\* C21 as stated: a click on a value button of a field sets the session's filter of
\* the field to the value, the filter keeps it in every later script run that no
\* button of the field triggered, and the issues table shows only issues with the
\* value of every filter set.
C21_StickyFilters ==
    /\ [][\A f \in OverviewFields :
            /\ \A v \in {event'.val} : ClickedValue(f, v) => session_state'[SessionKey(f)] = v
            /\ FilterKept(f)]_vars
    /\ []TableHonoursFilters

\* C21, for the runs that reach the Overview tab: there a click on a value button sets
\* the filter of its field to the value; a click whose run stops before the tab
\* leaves the filter as it was; a filter set is kept by every run that no button of
\* its field triggered, and the issues table shows only issues with the value of
\* every filter set.
C21_StickyWhenTabReached ==
    /\ [][\A f \in OverviewFields :
            /\ \A v \in {event'.val} :
                  ClickedValue(f, v) =>
                      session_state'[SessionKey(f)] =
                          IF stage' \in {"done", "crashed"} THEN v
                          ELSE session_state[SessionKey(f)]
            /\ FilterKept(f)]_vars
    /\ []TableHonoursFilters

\* the status filter was set to Done by a click two runs ago, the run after it was a
\* reload, and the table of a project of three issues shows the two that are Done
C21_Witness ==
    /\ runs = 3
    /\ stage = "done"
    /\ event.kind = "reload"
    /\ session_state.filter_status = sDone
    /\ Len(df) = 3
    /\ Len(temp_df) = 2

(***************************************************************************)
(* Claims about the Commentary and Edit tabs (SpecEdit)                     *)
(***************************************************************************)
\* the last script run was triggered by a click on Save Commentary
SaveClicked == event.kind = "save"

\* the last script run got as far as the Commentary tab
TabsRendered == stage = "done"

\* C11 as stated: after a click on Save Commentary, commentary.json holds the entered
\* texts under the selected sprint.
C11_SaveAlwaysStores ==
    SaveClicked =>
        /\ selected_sprint \in DOMAIN commentary_file
        /\ commentary_file[selected_sprint] = event.texts

\* C11, amended: a script run that reaches the Commentary tab with Save Commentary
\* clicked stores the five entered texts under the selected sprint and leaves the
\* commentary of every other sprint as it was; every other script run, also one
\* that a Save Commentary click triggered and that stopped before the tab, leaves
\* commentary.json unchanged.
C11_SaveStoresWhenTabReached ==
    [][ IF SaveClicked' /\ TabsRendered'
        THEN /\ DOMAIN commentary_file' = DOMAIN commentary_file \cup {selected_sprint'}
             /\ commentary_file'[selected_sprint'] = event'.texts
             /\ \A k \in DOMAIN commentary_file \ {selected_sprint'} :
                   commentary_file'[k] = commentary_file[k]
        ELSE commentary_file' = commentary_file ]_vars

\* texts were saved over the stored commentary of sprint S, next to that of sprint Q
C11_Witness ==
    /\ SaveClicked
    /\ TabsRendered
    /\ selected_sprint = <<"S">>
    /\ event.texts = TypedTexts
    /\ commentary_file[selected_sprint] = TypedTexts
    /\ <<"Q">> \in DOMAIN commentary_file

\* the fields an edit form has a label for, in the order of the claim, and their keys
LabelledFields == <<"team", "status", "sprint", "project", "workstream", "milestone">>
LabelKey(f) ==
    CASE f = "team" -> <<"T","e","a","m">>
      [] f = "status" -> <<"S","t","a","t","u","s">>
      [] f = "sprint" -> <<"S","p","r","i","n","t">>
      [] f = "project" -> <<"P","r","o","j","e","c","t">>
      [] f = "workstream" -> <<"W","o","r","k","s","t","r","e","a","m">>
      [] f = "milestone" -> <<"M","i","l","e","s","t","o","n","e">>

\* one "Key::Value" label per non-empty field of the form, in that order
ExpectedLabels(fm) ==
    LET filled == SelectSeq(LabelledFields, LAMBDA f : fm[f] # <<>>) IN
    [i \in 1..Len(filled) |-> LabelKey(filled[i]) \o <<":", ":">> \o fm[filled[i]]]

\* C12: every update a script run sends to the API carries the title and the
\* description entered in the form and, as labels, exactly one "Key::Value" label per
\* non-empty field among Team, Status, Sprint, Project, Workstream, Milestone, in
\* that order: no label for an empty field and no other label of the issue.
C12_EditPayload ==
    \A k \in 1..Len(update_calls) :
        /\ update_calls[k].title = event.form.title
        /\ update_calls[k].description = event.form.description
        /\ update_calls[k].labels = ExpectedLabels(event.form)

\* issue 3, without a team and with the label "bug" and a GitLab milestone, was
\* edited in the Edit tab: the update carries its status and milestone only
C12_Witness ==
    /\ Len(update_calls) = 1
    /\ update_calls[1].via = "edit"
    /\ update_calls[1].iid = 3
    /\ event.form.team = <<>>
    /\ \E i \in 1..Len(df) : df[i].iid = 3 /\ <<"b","u","g">> \in SeqRange(df[i].labels)
    /\ update_calls[1].labels = <<sStatus \o sSep \o sDone, sMilestone \o sSep \o <<"M">> >>
    /\ \E i \in 1..Len(server) : server[i].iid = 3 /\ server[i].labels = update_calls[1].labels

(***************************************************************************)
(* Claims about Excel loading (SpecLoader) and detect_fund_column           *)
(* (SpecDetect)                                                             *)
(***************************************************************************)
\* the sheets the mapping names for a file
MappedSheets(entry) == IF entry.str THEN {entry.value} ELSE SeqRange(entry.value)

\* the (file, sheet) pairs of the folder that load: an Excel file that is a key of the
\* mapping and opens, and a mapped sheet of it that exists, reads and is not empty
LoadablePairs ==
    { p \in UNION { {<<i, s>> : s \in DOMAIN folder[i].sheets} : i \in 1..Len(folder) } :
        LET file == folder[p[1]] IN
        /\ \E k \in 1..(Len(file.name) - 3) : SubSeq(file.name, k, k + 3) = <<".","x","l","s">>
        /\ file.name \in DOMAIN sheet_mapping
        /\ file.opens
        /\ p[2] \in MappedSheets(sheet_mapping[file.name])
        /\ file.sheets[p[2]].reads
        /\ file.sheets[p[2]].frame.cells # <<>>
        /\ file.sheets[p[2]].frame.columns # <<>> }

\* FUND of the files of the folders: the name without extension, "file" removed,
\* upper-cased
ExpectedFund(fname) ==
    CASE fname = <<"f","i","l","e","a",".","x","l","s","x">> -> <<"A">>
      [] fname = <<"a",".","x","l","s","x">> -> <<"A">>
      [] fname = <<"f","i","l","e","b",".","x","l","s">> -> <<"B">>
      [] fname = <<"f","i","l","e","c",".","x","l","s","x">> -> <<"C">>
      [] fname = <<"n","o","t","e","s",".","x","l","s","x">> -> <<"N","O","T","E","S">>
      [] fname = <<"x",".","c","s","v">> -> <<"X">>

\* "<name> (<sheet>)"
KeyText(name, sheet) == name \o <<" ","(">> \o sheet \o <<")">>

\* the values of column c of a frame, and whether it has that column
HasColumn(frame, c) == \E i \in 1..Len(frame.columns) : frame.columns[i] = c
ValuesOf(frame, c) ==
    { frame.cells[r][i] : r \in 1..Len(frame.cells),
                          i \in {j \in 1..Len(frame.columns) : frame.columns[j] = c} }

\* C13: utils/file_loader.py's load_excel_files_from_folder returns one entry per
\* loaded (file, sheet) pair: as many entries as pairs, for every pair an entry keyed
\* "<FUND> (<sheet>)" whose rows all carry Fund Name = FUND, and no other entry.
C13_OneEntryPerPair ==
    by_fund.loaded =>
        /\ Cardinality(DOMAIN by_fund.dfs) = Cardinality(LoadablePairs)
        /\ \A p \in LoadablePairs :
              LET fund == ExpectedFund(folder[p[1]].name)
                  key == KeyText(fund, p[2])
              IN  /\ key \in DOMAIN by_fund.dfs
                  /\ HasColumn(by_fund.dfs[key], <<"F","u","n","d"," ","N","a","m","e">>)
                  /\ ValuesOf(by_fund.dfs[key], <<"F","u","n","d"," ","N","a","m","e">>) = {fund}
        /\ \A key \in DOMAIN by_fund.dfs :
              \E p \in LoadablePairs : key = KeyText(ExpectedFund(folder[p[1]].name), p[2])

\* a column in which detect_fund_column finds a fund column: one whose name holds
\* "fund", or is "name" or "portfolio", case and surrounding spaces apart
FundColumnName(c) ==
    \/ \E k \in 1..(Len(c) - 3) : Lower(SubSeq(c, k, k + 3)) = <<"f","u","n","d">>
    \/ Lower(Trimmed(c)) \in {<<"n","a","m","e">>, <<"p","o","r","t","f","o","l","i","o">>}

\* the loadable pairs whose sheet has a fund column
LoadableWithFund ==
    { p \in LoadablePairs :
        \E i \in 1..Len(folder[p[1]].sheets[p[2]].frame.columns) :
            FundColumnName(folder[p[1]].sheets[p[2]].frame.columns[i]) }

\* C14: a file that does not open, a mapped sheet that is absent, a sheet that fails
\* to read and an empty sheet are skipped, and every other file and sheet is loaded
\* all the same: the result holds the sheets that load, whatever was skipped before
\* or after them.
C14_SkipAndContinue ==
    /\ load_stage # "idle" =>
          DOMAIN dataframes = { KeyText(folder[p[1]].name, p[2]) : p \in LoadableWithFund }
    /\ by_fund.loaded =>
          \A p \in LoadablePairs :
              KeyText(ExpectedFund(folder[p[1]].name), p[2]) \in DOMAIN by_fund.dfs

\* a mapped file that does not open is listed before a file whose sheet S1 was loaded
C14_Witness ==
    /\ load_stage = "loaded"
    /\ by_fund.loaded
    /\ Len(folder) = 2
    /\ ~folder[1].opens
    /\ folder[1].name \in DOMAIN sheet_mapping
    /\ KeyText(folder[2].name, sS1) \in DOMAIN dataframes
    /\ sS2 \in MappedSheets(sheet_mapping[folder[2].name])

\* C16: every DataFrame load_excel_files_from_folder returns has a 'Fund Name'
\* column, the combined table of the selected sources has it too, and the script
\* never stops on "Internal error: 'Fund Name' not present".
C16_FundNamePresent ==
    /\ \A k \in DOMAIN dataframes : HasColumn(dataframes[k], <<"F","u","n","d"," ","N","a","m","e">>)
    /\ load_stage # "internal_error"
    /\ load_stage = "combined" => <<"F","u","n","d"," ","N","a","m","e">> \in combined_columns

\* two sources are combined, loaded from a folder in which a readable, non-empty sheet
\* without a fund column was mapped and skipped
C16_Witness ==
    /\ load_stage = "combined"
    /\ Cardinality(selected_sources) = 2
    /\ LoadablePairs \ LoadableWithFund # {}

\* a column name, case and surrounding spaces apart
Folded(c) == Lower(Trimmed(c))

\* whether text t holds the word w
Holds(t, w) == \E k \in 1..(Len(t) - Len(w) + 1) : SubSeq(t, k, k + Len(w) - 1) = w

\* the positions of the columns that satisfy each rule of detect_fund_column
OverrideHits ==
    IF sFileA \in DOMAIN fund_col_overrides
    THEN {i \in 1..Len(detect_columns) :
            Folded(detect_columns[i]) = Folded(fund_col_overrides[sFileA])}
    ELSE {}
CandidateHits(n) ==
    {i \in 1..Len(detect_columns) :
        Folded(detect_columns[i]) = Folded(DEFAULT_FUND_COL_CANDIDATES[n])}
FundAndNameHits ==
    {i \in 1..Len(detect_columns) :
        Holds(Folded(detect_columns[i]), <<"f","u","n","d">>) /\ Holds(Folded(detect_columns[i]), <<"n","a","m","e">>)}
FundHits == {i \in 1..Len(detect_columns) : Holds(Folded(detect_columns[i]), <<"f","u","n","d">>)}
NameHits == {i \in 1..Len(detect_columns) : Folded(detect_columns[i]) = <<"n","a","m","e">>}

\* the result is a column at one of the positions, and the first of them
ReturnsOneOf(hits) ==
    detected.result.found /\ \E i \in hits : detected.result.col = detect_columns[i]
ReturnsFirstOf(hits) ==
    detected.result.found /\ detected.result.col = detect_columns[SetMin(hits)]

\* C15: detect_fund_column picks by strict precedence: the override column when a
\* column equals it; otherwise a column matching the earliest candidate that matches
\* any column; otherwise the first column holding "fund" and "name", else the first
\* holding "fund"; otherwise a column named "name"; None only when no rule applies.
C15_DetectPrecedence ==
    detected.done =>
        LET matched == {n \in 1..Len(DEFAULT_FUND_COL_CANDIDATES) : CandidateHits(n) # {}} IN
        IF OverrideHits # {} THEN ReturnsOneOf(OverrideHits)
        ELSE IF matched # {} THEN ReturnsOneOf(CandidateHits(SetMin(matched)))
        ELSE IF FundAndNameHits # {} THEN ReturnsFirstOf(FundAndNameHits)
        ELSE IF FundHits # {} THEN ReturnsFirstOf(FundHits)
        ELSE IF NameHits # {} THEN ReturnsOneOf(NameHits)
        ELSE ~detected.result.found

\* an override that no column equals, and a later column that matches an earlier
\* candidate than the first column does
C15_Witness ==
    /\ detected.done
    /\ sFileA \in DOMAIN fund_col_overrides
    /\ OverrideHits = {}
    /\ detect_columns = <<<<"P","o","r","t","f","o","l","i","o">>, <<"F","U","N","D">>>>
    /\ detected.result = SomeColumn(<<"F","U","N","D">>)

(***************************************************************************)
(* Claims about the Fund Explorer's commentary and activity log (SpecFund) *)
(***************************************************************************)
\* what reading the file back gives: its parsed content, nothing when there is none
ReadBack(file) == IF file.kind = "json" THEN file.data ELSE <<>>

\* the list stored under key k, empty when there is none
ListOf(d, k) == IF k \in DOMAIN d THEN d[k] ELSE <<>>

\* list `after` is list `before` with entries added at the end
Extends(before, after) ==
    /\ Len(before) <= Len(after)
    /\ \A i \in 1..Len(before) : after[i] = before[i]

\* every list of store `before` is extended in store `after`
StoreExtends(before, after) ==
    \A k \in DOMAIN before : Extends(before[k], ListOf(after, k))

\* session s is after the return of its add_comment call
Returned(s) == sess[s].pc = "ac_done"

\* C1: after add_comment(fund, comment, user) has returned, the commentary file read
\* back maps fund to the list it held when add_comment was called followed by exactly
\* one new entry, which carries that comment and user, and the list of every other
\* fund is as it was.
C1_AddCommentAppends ==
    \A s \in Sessions :
        Returned(s) =>
            LET a == sess[s].ac_args
                before == sess[s].commentary_at_call
                after == ReadBack(commentary_json)
                old == ListOf(before, a.fund)
                new == ListOf(after, a.fund)
            IN  /\ commentary_json.kind = "json"
                /\ Len(new) = Len(old) + 1
                /\ SubSeq(new, 1, Len(old)) = old
                /\ new[Len(new)].comment = a.comment
                /\ new[Len(new)].user = a.user
                /\ \A g \in (DOMAIN before \cup DOMAIN after) \ {a.fund} :
                      ListOf(after, g) = ListOf(before, g)

\* add_comment has returned for a fund that already had comments, another fund
\* having comments too
C1_Witness ==
    \E s \in Sessions :
        /\ Returned(s)
        /\ ListOf(sess[s].commentary_at_call, sess[s].ac_args.fund) # <<>>
        /\ \E g \in DOMAIN sess[s].commentary_at_call :
              g # sess[s].ac_args.fund /\ sess[s].commentary_at_call[g] # <<>>
        /\ Len(ListOf(ReadBack(commentary_json), sess[s].ac_args.fund)) >= 2

\* C2: across any sequence of script runs of one session, no step removes or changes
\* an entry of the commentary file or of the activity log: every list of either file
\* only grows at its end.
C2_AppendOnly ==
    [][ /\ StoreExtends(ReadBack(commentary_json), ReadBack(commentary_json'))
        /\ StoreExtends(ReadBack(log_json), ReadBack(log_json')) ]_vars

\* a fund with two comments and a user with three log entries, written by two runs
C2_Witness ==
    /\ \E f \in DOMAIN ReadBack(commentary_json) : Len(ReadBack(commentary_json)[f]) >= 2
    /\ \E u \in DOMAIN ReadBack(log_json) : Len(ReadBack(log_json)[u]) >= 3
    /\ now = 2

\* add_comment of session s has saved its comment: the fund's list in the file is one
\* longer than when add_comment was called and ends with that comment and user
SavedComment(s) ==
    LET a == sess[s].ac_args
        c == ListOf(ReadBack(commentary_json), a.fund)
    IN  /\ Len(c) = Len(ListOf(sess[s].commentary_at_call, a.fund)) + 1
        /\ c[Len(c)].comment = a.comment
        /\ c[Len(c)].user = a.user

\* since add_comment of session s was called, the log gained exactly one entry: an
\* "Added commentary" entry of its user
LoggedOnce(s) ==
    LET a == sess[s].ac_args
        before == sess[s].log_at_call
        after == ReadBack(log_json)
        old == ListOf(before, a.user)
        new == ListOf(after, a.user)
    IN  /\ Len(new) = Len(old) + 1
        /\ SubSeq(new, 1, Len(old)) = old
        /\ new[Len(new)].action = "Added commentary"
        /\ \A u \in (DOMAIN before \cup DOMAIN after) \ {a.user} :
              ListOf(after, u) = ListOf(before, u)

\* the "Added commentary" entries a step adds to the log, as <<user, fund>> pairs
AddedCommentaryEntries ==
    LET before == ReadBack(log_json)
        after == ReadBack(log_json')
    IN  UNION { { <<u, after[u][i].details>> :
                    i \in { j \in (Len(ListOf(before, u)) + 1)..Len(after[u]) :
                              after[u][j].action = "Added commentary" } } :
                u \in DOMAIN after }

\* C3: every add_comment call writes exactly one log entry, with action
\* "Added commentary", for the commenting user, and writes it only after the comment
\* has been saved to the commentary file.
C3_LoggedOnceAfterSave ==
    [][ /\ \A s \in Sessions : Returned(s)' => LoggedOnce(s)'
        /\ \A p \in AddedCommentaryEntries :
              \E s \in Sessions :
                  /\ sess[s].called
                  /\ sess[s].ac_args.user = p[1]
                  /\ sess[s].ac_args.fund = p[2]
                  /\ SavedComment(s) ]_vars

\* add_comment has returned with its comment in the file and its entry in a log that
\* already held entries of that user
C3_Witness ==
    \E s \in Sessions :
        /\ Returned(s)
        /\ SavedComment(s)
        /\ LoggedOnce(s)
        /\ Len(ListOf(ReadBack(log_json), sess[s].ac_args.user)) >= 3

\* the Append Commentary press of session s has a user name and a comment that is not
\* blank after stripping
ValidPress(s) ==
    /\ sess[s].clicked
    /\ sess[s].username # <<>>
    /\ Trimmed(sess[s].new_comment) # <<>>

\* C4: a script run calls add_comment exactly when Append Commentary was pressed
\* with a non-empty username and a comment that is not blank after stripping; no
\* other step changes the commentary file or adds an "Added commentary" log entry.
C4_AppendGuard ==
    [][ /\ \A s \in Sessions :
              (sess[s].pc = "form" /\ sess'[s].pc # "form") =>
                  (sess'[s].called <=> ValidPress(s))
        /\ commentary_json' # commentary_json =>
              \E s \in Sessions : sess[s].called /\ ValidPress(s)
        /\ \A p \in AddedCommentaryEntries :
              \E s \in Sessions : sess[s].called /\ ValidPress(s) /\ sess[s].username = p[1]
      ]_vars

\* Append Commentary was pressed by a named user on a blank comment, and the script
\* went on to the next tab without calling add_comment
C4_Witness ==
    \E s \in Sessions :
        /\ sess[s].pc = "compare"
        /\ sess[s].clicked
        /\ sess[s].username = sAl
        /\ sess[s].new_comment = <<" ">>
        /\ ~sess[s].called

(***************************************************************************)
(* Claims about the CSV export (SpecExport)                                 *)
(***************************************************************************)
\* a response that ends the fetch loop
Stops(response) == response.status_code # 200 \/ response.json = <<>>

\* the issues of pages 1..k, in page order
RECURSIVE IssuesUpTo(_)
IssuesUpTo(k) == IF k = 0 THEN <<>> ELSE IssuesUpTo(k - 1) \o Get(k).json

\* the fetch loop is over
FetchOver == export_pc # "fetch"

\* C18: the pages requested are 1, 2, 3, ... without gap or repetition; the loop ends
\* at the first response that is not 200 or is an empty list, and not before;
\* all_issues is then the issues of the pages before that one in page order, and the
\* CSV holds one row for each of them, after an error response too.
C18_PaginatedFetch ==
    /\ \A i \in 1..Len(requested) : requested[i] = i
    /\ \A i \in 1..(Len(requested) - 1) : ~Stops(Get(i))
    /\ ~FetchOver => /\ page = Len(requested) + 1
                     /\ Len(requested) >= 1 => ~Stops(Get(Len(requested)))
    /\ FetchOver /\ requested # <<>> =>
          /\ Stops(Get(Len(requested)))
          /\ all_issues = IssuesUpTo(Len(requested) - 1)
    /\ export_pc = "done" /\ requested # <<>> =>
          /\ output_file.written
          /\ Len(output_file.rows) = Len(all_issues) + 1
          /\ \A i \in 1..Len(all_issues) : output_file.rows[i + 1][1] = IntStr(all_issues[i].iid)

\* two pages of issues, then an error response: three requests, three issues, and a
\* CSV of a header and three rows
C18_Witness ==
    /\ export_pc = "done"
    /\ requested = <<1, 2, 3>>
    /\ Get(3).status_code = 500
    /\ Len(all_issues) = 3
    /\ Len(output_file.rows) = 4

\* the label columns of the CSV: the header after the base columns
LabelColumns == SubSeq(output_file.rows[1], Len(BaseColumns) + 1, Len(output_file.rows[1]))

\* C19: the CSV has one column per label that occurs on a fetched issue, the columns
\* in increasing order and so without duplicates, and one row per fetched issue in
\* fetch order; the cell of issue i under label L is 1 if L is a label of i and 0 if
\* it is not.
C19_LabelMatrix ==
    output_file.written =>
        /\ SubSeq(output_file.rows[1], 1, Len(BaseColumns)) = BaseColumns
        /\ SeqRange(LabelColumns) =
              UNION {SeqRange(all_issues[i].labels) : i \in 1..Len(all_issues)}
        /\ \A j \in 1..(Len(LabelColumns) - 1) : StrLess(LabelColumns[j], LabelColumns[j + 1])
        /\ Len(output_file.rows) = Len(all_issues) + 1
        /\ \A i \in 1..Len(all_issues) :
              LET row == output_file.rows[i + 1] IN
              /\ Len(row) = Len(BaseColumns) + Len(LabelColumns)
              /\ row[1] = IntStr(all_issues[i].iid)
              /\ \A j \in 1..Len(LabelColumns) :
                    row[Len(BaseColumns) + j] =
                        IF \E k \in 1..Len(all_issues[i].labels) :
                              all_issues[i].labels[k] = LabelColumns[j]
                        THEN <<"1">> ELSE <<"0">>

\* four labels on three issues, "bug" on two of them: the columns are B, Team::A, a,
\* bug, and the row of issue 3 is 1 0 1 1
C19_Witness ==
    /\ output_file.written
    /\ Len(all_issues) = 3
    /\ all_issues[3].iid = 3
    /\ LabelColumns = << <<"B">>, <<"T","e","a","m",":",":","A">>, <<"a">>, <<"b","u","g">> >>
    /\ SubSeq(output_file.rows[4], 8, 11) = << <<"1">>, <<"0">>, <<"1">>, <<"1">> >>
    /\ SubSeq(output_file.rows[3], 8, 11) = << <<"0">>, <<"0">>, <<"0">>, <<"0">> >>

\* the smaller of two numbers
Min(a, b) == IF a <= b THEN a ELSE b

\* session s renders the sidebar's recent activity for a named user in this step
RendersRecent(s) ==
    /\ sess[s].pc = "sidebar"
    /\ sess'[s].pc # "sidebar"
    /\ sess[s].username # <<>>

\* C17: when the sidebar's recent activity is rendered for a user whose log holds n
\* entries, it shows exactly min(n, 5) entries, and its i-th entry is the i-th newest
\* of the log: entry n + 1 - i.
C17_RecentActivity ==
    [][\A s \in Sessions :
          RendersRecent(s) =>
              LET logs == ListOf(ReadBack(log_json), sess[s].username)
                  n == Len(logs)
              IN  /\ Len(sess'[s].recent) = Min(n, 5)
                  /\ \A i \in 1..Min(n, 5) : sess'[s].recent[i] = logs[n + 1 - i]]_vars

\* the user's log holds seven entries, two of them written by the run before, and the
\* sidebar shows five, the newest first
C17_Witness ==
    \E s \in Sessions :
        /\ sess[s].pc = "details"
        /\ sess[s].username = sBo
        /\ Len(ListOf(ReadBack(log_json), sBo)) = 7
        /\ Len(sess[s].recent) = 5
        /\ sess[s].recent[1].timestamp = 1
        /\ sess[s].recent[1].action = "Compared funds"
        /\ sess[s].recent[5].timestamp = -2

\* the actions session s's run logged: the entries of its user that carry the run's
\* timestamp
LoggedInRun(s) ==
    LET logs == ListOf(ReadBack(log_json), sess[s].username)
    IN  { logs[i].action : i \in {j \in 1..Len(logs) : logs[j].timestamp = now} }

\* the run of session s is over
RunOver(s) == sess[s].pc = "end"

\* a fund is selected in the Fund Details selectbox, and funds are selected in the
\* Compare Funds multiselect: the widgets have options only when funds were found
FundSelected(s) == sess[s].funds_found /\ sess[s].selected_fund # <<>>
FundsCompared(s) == sess[s].funds_found /\ sess[s].selected_funds # <<>>

\* C20: a script run appends a "Viewed fund" entry if and only if the user name is not
\* empty and a fund is selected, and a "Compared funds" entry if and only if the user
\* name is not empty and at least one fund is selected for comparison; no step of a
\* run with an empty user name changes the log file.
C20_ViewAndCompareLogged ==
    /\ [](\A s \in {"s1"} :
            RunOver(s) =>
                /\ "Viewed fund" \in LoggedInRun(s)
                        <=> (sess[s].username # <<>> /\ FundSelected(s))
                /\ "Compared funds" \in LoggedInRun(s)
                        <=> (sess[s].username # <<>> /\ FundsCompared(s)))
    /\ [][\A s \in {"s1"} :
            (sess[s].pc # "idle" /\ sess[s].username = <<>>) => log_json' = log_json]_vars

\* session s has returned from add_comment in its current run
Appended(s) == sess[s].called /\ sess[s].pc \in {"ac_done", "end"}

\* the comment session s appended is in the commentary file, and its "Added
\* commentary" entry is in the activity log
CommentPresent(s) ==
    \E i \in 1..Len(ListOf(ReadBack(commentary_json), sess[s].ac_args.fund)) :
        ListOf(ReadBack(commentary_json), sess[s].ac_args.fund)[i] =
            [timestamp |-> sess[s].ac_ts, comment |-> sess[s].ac_args.comment,
             user |-> sess[s].ac_args.user]
LogEntryPresent(s) ==
    \E i \in 1..Len(ListOf(ReadBack(log_json), sess[s].ac_args.user)) :
        /\ ListOf(ReadBack(log_json), sess[s].ac_args.user)[i].action = "Added commentary"
        /\ ListOf(ReadBack(log_json), sess[s].ac_args.user)[i].details = sess[s].ac_args.fund
        /\ ListOf(ReadBack(log_json), sess[s].ac_args.user)[i].timestamp = sess[s].log_ts

\* C23: when two sessions have each appended a comment, their load, append and save
\* steps interleaved in any order, both comments are in the commentary file and both
\* "Added commentary" entries are in the activity log.
C23_BothCommentsKept ==
    (\A s \in Sessions : Appended(s)) =>
        \A s \in Sessions : CommentPresent(s) /\ LogEntryPresent(s)

FilesMissing == commentary_json = MissingFile /\ log_json = MissingFile

InitSpecLabels ==
    InitLabels /\ server = <<>> /\ InitGitlabIdle /\ FilesMissing /\ InitFundIdle
    /\ InitLoaderIdle /\ InitExportIdle

SpecLabels == InitSpecLabels /\ [][NextLabels]_vars

InitSpecRoundTrip ==
    InitLabels /\ server = <<>> /\ InitGitlabIdle /\ FilesMissing /\ InitFundIdle
    /\ InitLoaderIdle /\ InitExportIdle

SpecRoundTrip == InitSpecRoundTrip /\ [][NextRoundTrip]_vars

InitSpecGitlab ==
    InitLabels /\ InitGitlab /\ FilesMissing /\ InitFundIdle /\ InitLoaderIdle
    /\ InitExportIdle

InitSpecFund ==
    /\ InitLabels
    /\ server = <<>>
    /\ InitGitlabIdle
    /\ \E files \in FileInputs : commentary_json = files[1] /\ log_json = files[2]
    /\ InitFundIdle
    /\ InitLoaderIdle
    /\ InitExportIdle

SpecFund == InitSpecFund /\ [][NextFund]_vars

SpecFundTwo == InitSpecFund /\ [][NextFundTwo]_vars

InitSpecEdit ==
    InitLabels /\ InitEdit /\ FilesMissing /\ InitFundIdle /\ InitLoaderIdle
    /\ InitExportIdle

SpecEdit == InitSpecEdit /\ [][NextEdit]_vars

InitSpecLoader ==
    InitLabels /\ server = <<>> /\ InitGitlabIdle /\ FilesMissing /\ InitFundIdle /\ InitLoader
    /\ InitExportIdle

SpecLoader == InitSpecLoader /\ [][NextLoader]_vars

InitSpecDetect ==
    InitLabels /\ server = <<>> /\ InitGitlabIdle /\ FilesMissing /\ InitFundIdle /\ InitDetect
    /\ InitExportIdle

SpecDetect == InitSpecDetect /\ [][NextDetect]_vars

InitSpecExport ==
    InitLabels /\ server = <<>> /\ InitGitlabIdle /\ FilesMissing /\ InitFundIdle
    /\ InitLoaderIdle /\ InitExport

SpecExport == InitSpecExport /\ [][NextExport]_vars


SpecGitlab == InitSpecGitlab /\ [][NextGitlab]_vars
====
